---- MODULE Spec2Model ----
(***************************************************************************)
(* A model of m2m/UFrameClient.py: the instrument catalog, the last-request *)
(* fields, search_instruments and instrument_to_query.                      *)
(*                                                                          *)
(* Text is modelled as a sequence of one-character strings, so that         *)
(* str.find, str.split and list.sort are computed, not assumed.  A          *)
(* timestamp string is a record (wall-clock seconds, zone designator,       *)
(* number of fractional digits); a datetime is a record (wall-clock         *)
(* seconds, aware flag, utc offset).  parser.parse and strftime convert     *)
(* between the two as dateutil and datetime do.  The code only tests its    *)
(* optional arguments for truthiness, so None is merged with the falsy      *)
(* value of the type: "" for a string, <<>> for text, 0 for an integer.     *)
(* An optional client field (None or a value) is a set of at most one       *)
(* element.                                                                 *)
(***************************************************************************)
EXTENDS Integers, Sequences, FiniteSets, TLC

\* self_instruments    self._instruments, the catalog
\* is_m2m              self._is_m2m
\* request_url         self._request_url   } the fields of the last request,
\* response            self._response      } each {} for None or {value}
\* status_code         self._status_code   }
\* gateway             what the remote end answers for each instrument's
\*                     metadata/times url
\* args                the arguments of the instrument_to_query call
\* pc                  where that call is: "idle" (not started), "fetch" (at
\*                     the head of the loop over the instruments), "streams"
\*                     (in the loop over the streams), "done" (returned
\*                     urls), "raised" (left by an uncaught exception)
\* instruments         its local instruments, inst_i the position in it
\* instrument_streams  its local instrument_streams, stream_i the position
\* urls                its local urls, the list it returns
\* searched            the argument and the value of the last call of
\*                     search_instruments by a user ({} before any)
\* base_url            self._base_url, {} for None or {value}
\* timeout             self._timeout
\* servers             what the remote end at each base url answers for
\*                     /sensor/inv and for /sensor/allstreams
\* last_call           the last operation a user of the client called, with
\*                     the gateway's answer, the value returned and whether
\*                     it left by an uncaught exception
\* thr                 the calls of send_request running in threads: for
\*                     each thread its position in send_request, its url
\*                     and its locals
\* script              the deployment script that runs ("" when none does)
\* script_pc           where its main is: "start", "loop" (over the
\*                     deployment events), "filtered", "done", "raised"
\* now                 its evaluation instant, in milliseconds
\* status_arg          args.status
\* fetched             what fetch_instrument_deployments returned to it
\* all_deployments     its local all_deployments, d_i the position in it
\* dep_streams         what fetch_instrument_streams returned to it
\* deployment_status   the report of show_instrument_deployment_status
\* cli                 the arguments the command line of the script gave
\* request_urls        the request_urls of build_instrument_deployment_requests
\* history             for a caller that calls instrument_to_query again and
\*                     again: the arguments and the result of each call that
\*                     returned
VARIABLES self_instruments, is_m2m, request_url, response, status_code,
          gateway, args, pc, instruments, inst_i, instrument_streams,
          stream_i, urls, searched, base_url, timeout, servers, last_call,
          thr, script, script_pc, now, status_arg, fetched, all_deployments,
          d_i, dep_streams, deployment_status, cli, request_urls, history

vars == <<self_instruments, is_m2m, request_url, response, status_code,
          gateway, args, pc, instruments, inst_i, instrument_streams,
          stream_i, urls, searched, base_url, timeout, servers, last_call,
          thr, script, script_pc, now, status_arg, fetched, all_deployments,
          d_i, dep_streams, deployment_status, cli, request_urls, history>>

client_vars == <<self_instruments, is_m2m, request_url, response, status_code>>

call_vars == <<args, pc, instruments, inst_i, instrument_streams, stream_i, urls>>

\* the rest of the client and its remote end
ext_vars == <<base_url, timeout, servers>>

\* the locals of a deployment script
script_vars == <<script, script_pc, now, status_arg, fetched, all_deployments, d_i,
                 dep_streams, deployment_status>>

\* what the callers of the client keep
caller_vars == <<cli, request_urls, history>>

\* what instrument_to_query and search_instruments never touch
aux_vars == <<ext_vars, last_call, thr, script_vars, caller_vars>>

-----------------------------------------------------------------------------
(* Bounds of the model *)

\* wall-clock times are the whole hours 0 .. MaxTick
MaxTick == 3

\* time_delta_value ranges over 0 .. MaxDeltaValue
MaxDeltaValue == 2

\* the gateway holds at most MaxStreams stream records in all
MaxStreams == 2

\* the bulk listing names at most MaxListing instruments
MaxListing == 2

-----------------------------------------------------------------------------
(* Program constants *)

HTTP_STATUS_OK == 200

SENSOR_PORT == 12576

DEPLOYMENT_PORT == 12587

\* the default of __init__'s timeout
DEFAULT_TIMEOUT == 120

_valid_relativedeltatypes ==
    {"years", "months", "weeks", "days", "hours", "minutes", "seconds"}

\* Seconds subtracted by relativedelta(**{type: 1}).  months and years are
\* calendar units in dateutil; they are taken as 30 and 365 days.
UnitSeconds ==
    [seconds |-> 1, minutes |-> 60, hours |-> 3600, days |-> 86400,
     weeks |-> 604800, months |-> 2592000, years |-> 31536000]

-----------------------------------------------------------------------------
(* Text *)

\* code point of a character (ord)
Ord(c) ==
    CASE c = "-" -> 45
      [] c = "/" -> 47
      [] c = "0" -> 48
      [] c = "1" -> 49
      [] c = "A" -> 65
      [] c = "B" -> 66
      [] c = "a" -> 97
      [] c = "b" -> 98
      [] c = "h" -> 104
      [] c = "i" -> 105
      [] c = "r" -> 114
      [] c = "t" -> 116

SetMin(S) == CHOOSE x \in S : \A y \in S : x <= y

\* str.find: the lowest 0-based index where sub occurs in s, or -1
Find(s, sub) ==
    LET hits == {i \in 0..(Len(s) - Len(sub)) :
                    SubSeq(s, i + 1, i + Len(sub)) = sub}
    IN  IF hits = {} THEN -1 ELSE SetMin(hits)

RECURSIVE Split(_, _)
\* str.split(sep) for a one-character separator
Split(s, sep) ==
    LET k == Find(s, <<sep>>)
    IN  IF k = -1 THEN <<s>>
        ELSE <<SubSeq(s, 1, k)>> \o Split(SubSeq(s, k + 2, Len(s)), sep)

RECURSIVE Join(_, _)
\* sep.join(parts)
Join(parts, sep) ==
    IF Len(parts) = 0 THEN <<>>
    ELSE IF Len(parts) = 1 THEN parts[1]
    ELSE parts[1] \o <<sep>> \o Join(Tail(parts), sep)

RECURSIVE StrLess(_, _)
\* a < b for str: lexicographic by code point
StrLess(a, b) ==
    IF Len(b) = 0 THEN FALSE
    ELSE IF Len(a) = 0 THEN TRUE
    ELSE IF Ord(Head(a)) < Ord(Head(b)) THEN TRUE
    ELSE IF Ord(Head(a)) > Ord(Head(b)) THEN FALSE
    ELSE StrLess(Tail(a), Tail(b))

RECURSIVE Insort(_, _)
Insort(sorted, x) ==
    IF Len(sorted) = 0 THEN <<x>>
    ELSE IF StrLess(x, Head(sorted)) THEN <<x>> \o sorted
    ELSE <<Head(sorted)>> \o Insort(Tail(sorted), x)

RECURSIVE Sort(_)
\* list.sort() on a list of str
Sort(l) == IF Len(l) = 0 THEN <<>> ELSE Insort(Sort(SubSeq(l, 1, Len(l) - 1)), l[Len(l)])

-----------------------------------------------------------------------------
(* Timestamps *)

NoTs == [text |-> "none", wall |-> 0, zone |-> "", frac |-> 0]

JunkTs == [text |-> "junk", wall |-> 0, zone |-> "", frac |-> 0]

\* an ISO-8601 string: wall-clock time, zone designator ("" when it has none)
\* and the number of fractional-second digits written
IsoTs(wall, zone, frac) == [text |-> "iso", wall |-> wall, zone |-> zone, frac |-> frac]

ZoneOffset(zone) ==
    CASE zone = "Z" -> 0
      [] zone = "-01:00" -> 0 - UnitSeconds.hours
      [] zone = "+01:00" -> UnitSeconds.hours
      [] OTHER -> 0

\* parser.parse raises ValueError unless the text is a date
Parses(ts) == ts.text = "iso"

\* parser.parse: a datetime, aware iff the string names a zone
Parse(ts) == [wall |-> ts.wall, aware |-> ts.zone # "", utcoffset |-> ZoneOffset(ts.zone)]

\* dt.strftime('%Y-%m-%dT%H:%M:%S.%fZ'): the wall-clock fields, six
\* fractional digits and a literal Z, whatever the tzinfo of dt
Strftime(dt) == IsoTs(dt.wall, "Z", 6)

\* the instant of a datetime, in seconds (utc for an aware one)
Instant(dt) == dt.wall - dt.utcoffset

\* comparing a naive with an aware datetime raises TypeError
Comparable(a, b) == a.aware = b.aware

DtLess(a, b) == Instant(a) < Instant(b)

\* dt - relativedelta(**{type: value})
MinusDelta(dt, type, value) == [dt EXCEPT !.wall = @ - UnitSeconds[type] * value]

-----------------------------------------------------------------------------
(* The client: catalog, request urls, send_request *)

BoolLower(b) == IF b THEN "true" ELSE "false"

\* build_request: the m2m url or the direct url of an end point
build_request(m2m, port, end_point) == [m2m |-> m2m, port |-> port, end_point |-> end_point]

\* the end point of fetch_instrument_streams
StreamsEndPoint(ref_des) ==
    LET r_tokens == Split(ref_des, "-")
    IN  [path |-> "metadata/times",
         subsite |-> r_tokens[1],
         node |-> r_tokens[2],
         sensor |-> r_tokens[3] \o <<"-">> \o r_tokens[4]]

\* the end point of _create_instrument_list
AllStreamsEndPoint == [path |-> "/sensor/allstreams"]

\* what the gateway holds for the instrument a metadata/times url names
GatewayGet(gw, url) ==
    gw[Join(<<url.end_point.subsite, url.end_point.node, url.end_point.sensor>>, "-")]

\* send_request's check of the url against the base urls: a url built for
\* direct access does not start with the m2m base url; every built url
\* starts with the base url
UrlAccepted(m2m, url) == ~(m2m /\ ~url.m2m)

\* send_request: session.get raises an exception that the except clause
\* does not name (requests.exceptions.ReadTimeout), which leaves
\* send_request
SendRaises(m2m, url, r) == UrlAccepted(m2m, url) /\ r.timeout

\* send_request: the value of _status_code after the request r was answered
SentStatus(m2m, url, r) ==
    IF ~UrlAccepted(m2m, url) \/ r.raises \/ r.timeout THEN {} ELSE {r.status_code}

\* send_request: the value of _response after the request, which is also
\* the value returned ({} stands for None)
SentResponse(m2m, url, r) ==
    IF ~UrlAccepted(m2m, url) \/ r.raises \/ r.timeout THEN {}
    ELSE IF r.status_code # HTTP_STATUS_OK THEN {}
    ELSE {r.json}

\* _create_instrument_list: the regex matches of the bulk listing, each
\* subsite/node/sensor rewritten with dashes, sorted
_create_instrument_list(matches) ==
    IF Len(matches) = 0 THEN <<>>
    ELSE Sort([i \in DOMAIN matches |-> Join(Split(matches[i], "/"), "-")])

\* a search that matches at the start of the entry only
search_instruments_startswith(catalog, ref_des) ==
    SelectSeq(catalog, LAMBDA i : Find(i, ref_des) = 0)

\* search_instruments: the catalog entries in which ref_des occurs
search_instruments(catalog, ref_des) ==
    SelectSeq(catalog, LAMBDA i : Find(i, ref_des) > -1)

-----------------------------------------------------------------------------
(* instrument_to_query *)

\* the relative window is used when both delta arguments are truthy
DeltaActive(a) == a.time_delta_type # "" /\ a.time_delta_value # 0

\* checks that refuse an unknown unit whether or not a value comes with it
RejectedUpFront_AnyInvalidType(a) ==
    \/ (a.time_delta_type # "" /\ a.time_delta_type \notin _valid_relativedeltatypes)
    \/ (a.begin_ts.text # "none" /\ ~Parses(a.begin_ts))
    \/ (a.end_ts.text # "none" /\ ~Parses(a.end_ts))

\* checks that leave the explicit bounds unparsed when the delta is used
RejectedUpFront_DeltaFirst(a) ==
    \/ (DeltaActive(a) /\ a.time_delta_type \notin _valid_relativedeltatypes)
    \/ (~DeltaActive(a) /\ a.begin_ts.text # "none" /\ ~Parses(a.begin_ts))
    \/ (~DeltaActive(a) /\ a.end_ts.text # "none" /\ ~Parses(a.end_ts))

\* the checks made before the loop over the instruments: each returns the
\* empty list
RejectedUpFront(a) ==
    \/ (DeltaActive(a) /\ a.time_delta_type \notin _valid_relativedeltatypes)
    \/ (a.begin_ts.text # "none" /\ ~Parses(a.begin_ts))
    \/ (a.end_ts.text # "none" /\ ~Parses(a.end_ts))

\* the stream filter: the first retrieved stream of that name, or no
\* stream at all
FilterByStream(streams, stream) ==
    LET hits == {i \in DOMAIN streams : streams[i].stream = stream}
    IN  IF stream = "" THEN streams
        ELSE IF hits = {} THEN <<>>
        ELSE <<streams[SetMin(hits)]>>

\* the telemetry filter: method.find(telemetry) == -1 skips the stream
TelemetrySkips(a, s) == a.telemetry # <<>> /\ Find(s.method, a.telemetry) = -1

\* a window in which a supplied explicit bound wins over the delta
RequestedWindow_ExplicitFirst(a, stream_dt0, stream_dt1) ==
    LET dt1 == IF a.end_ts.text # "none" THEN Parse(a.end_ts) ELSE stream_dt1
    IN  [dt0 |-> IF a.begin_ts.text # "none" THEN Parse(a.begin_ts)
                 ELSE IF DeltaActive(a)
                 THEN MinusDelta(dt1, a.time_delta_type, a.time_delta_value)
                 ELSE stream_dt0,
         dt1 |-> dt1]

\* a window whose missing begin defaults to the stream's endTime
RequestedWindow_EndAsDefault(a, stream_dt0, stream_dt1) ==
    IF DeltaActive(a)
    THEN [dt0 |-> MinusDelta(stream_dt1, a.time_delta_type, a.time_delta_value),
          dt1 |-> stream_dt1]
    ELSE [dt0 |-> IF a.begin_ts.text # "none" THEN Parse(a.begin_ts) ELSE stream_dt1,
          dt1 |-> IF a.end_ts.text # "none" THEN Parse(a.end_ts) ELSE stream_dt1]

\* the requested window, before time_check: relative to the stream's end
\* when the delta is active, else the explicit bounds with the stream's
\* bounds as defaults
RequestedWindow(a, stream_dt0, stream_dt1) ==
    IF DeltaActive(a)
    THEN [dt0 |-> MinusDelta(stream_dt1, a.time_delta_type, a.time_delta_value),
          dt1 |-> stream_dt1]
    ELSE [dt0 |-> IF a.begin_ts.text # "none" THEN Parse(a.begin_ts) ELSE stream_dt0,
          dt1 |-> IF a.end_ts.text # "none" THEN Parse(a.end_ts) ELSE stream_dt1]

\* time_check: a bound outside the stream's availability is replaced by
\* the stream's own string, the two strings are parsed again and compared.
\* kind is "url" (keep ts0, ts1), "skip" (invalid range) or "raise"
\* (TypeError of a comparison)
TimeCheck(s, w, stream_dt0, stream_dt1) ==
    LET ts1 == IF DtLess(stream_dt1, w.dt1) THEN s.endTime ELSE Strftime(w.dt1)
        ts0 == IF DtLess(w.dt0, stream_dt0) THEN s.beginTime ELSE Strftime(w.dt0)
        dt0 == Parse(ts0)
        dt1 == Parse(ts1)
    IN  IF ~Comparable(w.dt1, stream_dt1) \/ ~Comparable(w.dt0, stream_dt0)
           \/ ~Comparable(dt0, dt1)
        THEN [kind |-> "raise", ts0 |-> ts0, ts1 |-> ts1]
        ELSE IF ~DtLess(dt0, dt1)
        THEN [kind |-> "skip", ts0 |-> ts0, ts1 |-> ts1]
        ELSE [kind |-> "url", ts0 |-> ts0, ts1 |-> ts1]

\* the values the format string of the end point takes, in the order it
\* writes them
EndPointFields ==
    <<"subsite", "node", "sensor", "method", "stream", "beginDT", "endDT", "format",
      "limit", "execDPA", "include_provenance", "user">>

\* an end point that always ends with an email parameter
QueryEndPoint_AlwaysEmail(a, instrument, s, ts0, ts1) ==
    LET r_tokens == Split(instrument, "-")
    IN  [path |-> "query",
         written |-> EndPointFields \o <<"email">>,
         subsite |-> r_tokens[1],
         node |-> r_tokens[2],
         sensor |-> r_tokens[3] \o <<"-">> \o r_tokens[4],
         method |-> s.method,
         stream |-> s.stream,
         beginDT |-> ts0,
         endDT |-> ts1,
         format |-> a.application_type,
         limit |-> a.limit,
         execDPA |-> BoolLower(a.exec_dpa),
         include_provenance |-> BoolLower(a.provenance),
         user |-> a.user,
         email |-> a.email]

\* an end point that asks for the annotations when annotations is set
QueryEndPoint_Annotated(a, instrument, s, ts0, ts1) ==
    LET r_tokens == Split(instrument, "-")
    IN  [path |-> "query",
         written |-> (IF a.email # "" THEN EndPointFields \o <<"email">>
                      ELSE EndPointFields)
                     \o (IF a.annotations THEN <<"annotations">> ELSE <<>>),
         subsite |-> r_tokens[1],
         node |-> r_tokens[2],
         sensor |-> r_tokens[3] \o <<"-">> \o r_tokens[4],
         method |-> s.method,
         stream |-> s.stream,
         beginDT |-> ts0,
         endDT |-> ts1,
         format |-> a.application_type,
         limit |-> a.limit,
         execDPA |-> BoolLower(a.exec_dpa),
         include_provenance |-> BoolLower(a.provenance),
         user |-> a.user,
         email |-> a.email]

\* the end point of a data request: written names what the string holds, in
\* order; &email= is appended when email is truthy
QueryEndPoint(a, instrument, s, ts0, ts1) ==
    LET r_tokens == Split(instrument, "-")
    IN  [path |-> "query",
         written |-> IF a.email # "" THEN EndPointFields \o <<"email">>
                     ELSE EndPointFields,
         subsite |-> r_tokens[1],
         node |-> r_tokens[2],
         sensor |-> r_tokens[3] \o <<"-">> \o r_tokens[4],
         method |-> s.method,
         stream |-> s.stream,
         beginDT |-> ts0,
         endDT |-> ts1,
         format |-> a.application_type,
         limit |-> a.limit,
         execDPA |-> BoolLower(a.exec_dpa),
         include_provenance |-> BoolLower(a.provenance),
         user |-> a.user,
         email |-> a.email]

\* one pass of the loop over the instrument's streams: what it does for
\* the stream s.  kind is "skip", "raise" or "url" (append url)
StreamOutcome(a, m2m, instrument, s) ==
    LET stream_dt0 == Parse(s.beginTime)
        stream_dt1 == Parse(s.endTime)
        w == RequestedWindow(a, stream_dt0, stream_dt1)
        tc == IF a.time_check THEN TimeCheck(s, w, stream_dt0, stream_dt1)
              ELSE [kind |-> "url", ts0 |-> Strftime(w.dt0), ts1 |-> Strftime(w.dt1)]
    IN  IF TelemetrySkips(a, s) \/ ~Parses(s.beginTime) \/ ~Parses(s.endTime)
        THEN [kind |-> "skip", url |-> <<>>]
        ELSE IF tc.kind # "url"
        THEN [kind |-> tc.kind, url |-> <<>>]
        ELSE [kind |-> "url",
              url |-> <<build_request(m2m, SENSOR_PORT,
                                      QueryEndPoint(a, instrument, s, tc.ts0, tc.ts1))>>]

-----------------------------------------------------------------------------
(* The values the model draws from *)

Hour == UnitSeconds.hours

\* the entries of the bulk listing, as the regex captures them
Listed1 == <<"A", "/", "A", "/", "0", "-", "B">>

Listed2 == <<"A", "/", "a", "/", "0", "-", "B">>

Listed3 == <<"B", "/", "A", "/", "1", "-", "A">>

RefDes1 == <<"A", "-", "A", "-", "0", "-", "B">>

RefDes2 == <<"A", "-", "a", "-", "0", "-", "B">>

RefDes3 == <<"B", "-", "A", "-", "1", "-", "A">>

RefDesUniverse == {RefDes1, RefDes2, RefDes3}

\* telemetry methods: t(elemetered), r(ecovered_)h(ost), r(ecovered_)i(nst)
Telemetered == <<"t">>

RecoveredHost == <<"r", "h">>

RecoveredInst == <<"r", "i">>

\* the gateway writes utc times with a Z and three fractional digits
GatewayTimes == {IsoTs(h * Hour, "Z", 3) : h \in 1..(MaxTick - 1)} \cup {JunkTs}

\* what a caller may pass as begin_ts or end_ts
UserZones == {"Z", "", "-01:00"}

UserTimes ==
    {NoTs, JunkTs} \cup {IsoTs(h * Hour, z, 0) : h \in 0..MaxTick, z \in UserZones}

\* the delta arguments: absent, present but falsy, every recognised unit
\* with every value, and an unknown unit with and without a value
DeltaArgs ==
    {<<"", 0>>, <<"days", 0>>, <<"", 1>>, <<"fortnights", 1>>, <<"fortnights", 0>>}
    \cup (_valid_relativedeltatypes \X (1..MaxDeltaValue))

DefaultArgs ==
    [ref_des |-> <<>>, user |-> "u", stream |-> "", telemetry |-> <<>>,
     time_delta_type |-> "", time_delta_value |-> 0,
     begin_ts |-> NoTs, end_ts |-> NoTs, time_check |-> TRUE,
     exec_dpa |-> TRUE, application_type |-> "netcdf", provenance |-> TRUE,
     limit |-> -1, annotations |-> FALSE, email |-> ""]

\* the gateway's answers.  raises: session.get raises ConnectionError or
\* MissingSchema; timeout: it raises ReadTimeout, which is neither; text:
\* the body is not JSON, r.json() raises ValueError and the response is
\* r.text, a str, here the list of the matches of the instrument regex in it
ConnectionError ==
    [raises |-> TRUE, timeout |-> FALSE, status_code |-> 0, text |-> FALSE, json |-> <<>>]

ReadTimeout ==
    [raises |-> FALSE, timeout |-> TRUE, status_code |-> 0, text |-> FALSE, json |-> <<>>]

NotFound ==
    [raises |-> FALSE, timeout |-> FALSE, status_code |-> 404, text |-> FALSE, json |-> <<>>]

Ok(json) ==
    [raises |-> FALSE, timeout |-> FALSE, status_code |-> HTTP_STATUS_OK, text |-> FALSE,
     json |-> json]

OkText(matches) ==
    [raises |-> FALSE, timeout |-> FALSE, status_code |-> HTTP_STATUS_OK, text |-> TRUE,
     json |-> matches]

\* the values a caller passes as base_url; Strip is url.strip('/')
Base1 == "https://a"

Base2 == "https://b"

BaseUrlArgs == {"", "ftp://a", Base1, "https://a/", Base2}

StartsWithHttp(url) == url \in {Base1, "https://a/", Base2}

Strip(url) == IF url = "https://a/" THEN Base1 ELSE url

NoCall == [op |-> "none"]

NoThreads == <<>>

\* the state of the client after __init__ found the listing matches
Constructed(matches, m2m) ==
    /\ is_m2m = m2m
    /\ self_instruments = _create_instrument_list(matches)
    /\ request_url = {build_request(m2m, SENSOR_PORT, AllStreamsEndPoint)}
    /\ status_code = {HTTP_STATUS_OK}
    /\ response = {matches}
    /\ base_url = {Base1}
    /\ timeout = DEFAULT_TIMEOUT
    /\ servers = [b \in {Base1, Base2} |-> [inv |-> Ok(<<>>), allstreams |-> OkText(matches)]]

\* no call of instrument_to_query or search_instruments yet
NotCalled ==
    /\ pc = "idle"
    /\ instruments = <<>>
    /\ inst_i = 1
    /\ instrument_streams = <<>>
    /\ stream_i = 1
    /\ urls = <<>>
    /\ searched = {}
    /\ last_call = NoCall

\* no command line
NoCli == [script |-> ""]

\* no deployment script runs
NoScript ==
    /\ script = ""
    /\ script_pc = "done"
    /\ now = 0
    /\ status_arg = "all"
    /\ fetched = <<>>
    /\ all_deployments = <<>>
    /\ d_i = 1
    /\ dep_streams = <<>>
    /\ deployment_status = <<>>
    /\ cli = NoCli
    /\ request_urls = <<>>
    /\ history = {}

\* no call yet, no thread and no script
Idle == NotCalled /\ thr = NoThreads /\ NoScript

-----------------------------------------------------------------------------
(* Time windows: one instrument with one stream, every request intent *)

WindowStreams ==
    {[stream |-> "a", method |-> Telemetered, beginTime |-> b, endTime |-> e] :
        b \in GatewayTimes \ {JunkTs}, e \in GatewayTimes \ {JunkTs}}

WindowArgs ==
    {[DefaultArgs EXCEPT !.time_delta_type = d[1], !.time_delta_value = d[2],
                         !.begin_ts = b, !.end_ts = e, !.time_check = tc] :
        d \in DeltaArgs, b \in UserTimes, e \in UserTimes, tc \in BOOLEAN}

Init ==
    /\ Constructed(<<Listed1>>, TRUE)
    /\ \E s \in WindowStreams :
          gateway = [r \in RefDesUniverse |-> IF r = RefDes1 THEN Ok(<<s>>) ELSE NotFound]
    /\ args \in WindowArgs
    /\ Idle

-----------------------------------------------------------------------------
(* Filters: several instruments and streams, failing lookups, bad bounds *)

Seqs(S, n) == UNION {[1..k -> S] : k \in 0..n}

FilterStreams ==
    {[stream |-> "a", method |-> Telemetered,
      beginTime |-> IsoTs(Hour, "Z", 3), endTime |-> IsoTs(2 * Hour, "Z", 3)],
     [stream |-> "a", method |-> RecoveredHost,
      beginTime |-> IsoTs(Hour, "Z", 3), endTime |-> IsoTs(2 * Hour, "Z", 3)],
     [stream |-> "b", method |-> RecoveredInst,
      beginTime |-> IsoTs(2 * Hour, "Z", 3), endTime |-> IsoTs(2 * Hour, "Z", 3)],
     [stream |-> "b", method |-> Telemetered,
      beginTime |-> JunkTs, endTime |-> IsoTs(2 * Hour, "Z", 3)],
     [stream |-> "b", method |-> RecoveredHost,
      beginTime |-> IsoTs(Hour, "Z", 3), endTime |-> JunkTs]}

FilterAnswers ==
    {ConnectionError, ReadTimeout, NotFound}
    \cup {Ok(l) : l \in Seqs(FilterStreams, MaxStreams)}

FilterListings ==
    {<<Listed1>>, <<Listed1, Listed1>>, <<Listed2, Listed1>>, <<Listed1, Listed2>>}

FilterArgs ==
    {[DefaultArgs EXCEPT !.ref_des = p, !.stream = st, !.telemetry = t,
                         !.time_check = tc] :
        p \in {<<>>, <<"a">>}, st \in {"", "a"}, t \in {<<>>, <<"h">>},
        tc \in BOOLEAN}

InitFilter ==
    /\ \E l \in FilterListings : Constructed(l, TRUE)
    /\ \E r1 \in FilterAnswers, r2 \in FilterAnswers :
          /\ Len(r1.json) + Len(r2.json) <= MaxStreams
          /\ gateway = [r \in RefDesUniverse |->
                           IF r = RefDes1 THEN r1 ELSE IF r = RefDes2 THEN r2 ELSE NotFound]
    /\ args \in FilterArgs
    /\ Idle

-----------------------------------------------------------------------------
(* Options: one instrument with one stream, every option of the url *)

\* the docstring's upper end of limit
LIMIT_MAX == 10000

\* limit, inside and outside the range the docstring gives
Limits == {-2, -1, 0, LIMIT_MAX, LIMIT_MAX + 1}

OptionArgs ==
    {[DefaultArgs EXCEPT !.exec_dpa = dpa, !.provenance = pr, !.annotations = an,
                         !.application_type = f, !.limit = l, !.email = em,
                         !.time_check = tc] :
        dpa \in BOOLEAN, pr \in BOOLEAN, an \in BOOLEAN, f \in {"netcdf", "json"},
        l \in Limits, em \in {"", "e"}, tc \in BOOLEAN}

InitOptions ==
    /\ Constructed(<<Listed1>>, TRUE)
    /\ gateway = [r \in RefDesUniverse |->
                     IF r = RefDes1
                     THEN Ok(<<[stream |-> "a", method |-> Telemetered,
                                beginTime |-> IsoTs(Hour, "Z", 3),
                                endTime |-> IsoTs(2 * Hour, "Z", 3)]>>)
                     ELSE NotFound]
    /\ args \in OptionArgs
    /\ Idle

-----------------------------------------------------------------------------
(* Searches: every listing, search_instruments alone *)

SearchListings == Seqs({Listed1, Listed2, Listed3}, MaxListing)

SearchPatterns ==
    {<<>>, <<"A">>, <<"a">>, <<"B">>, <<"b">>, <<"1">>, <<"-", "0">>,
     <<"A", "-", "A">>, <<"A", "-", "a">>, <<"B", "-", "A">>, RefDes1,
     RefDes1 \o <<"0">>}

InitSearch ==
    /\ \E l \in SearchListings : Constructed(l, TRUE)
    /\ gateway = [r \in RefDesUniverse |-> NotFound]
    /\ args = DefaultArgs
    /\ Idle

-----------------------------------------------------------------------------
(* Actions *)

\* search_instruments, called by a user of the client
SearchInstruments(ref_des) ==
    /\ searched' = {[ref_des |-> ref_des,
                     result |-> search_instruments(self_instruments, ref_des)]}
    /\ UNCHANGED <<client_vars, gateway, call_vars, aux_vars>>

\* a call that goes on with the list of urls it finds
Call_KeepsUrls ==
    /\ pc = "idle"
    /\ instruments' = search_instruments(self_instruments, args.ref_des)
    /\ urls' = urls
    /\ pc' = IF Len(instruments') = 0 \/ RejectedUpFront(args) THEN "done" ELSE "fetch"
    /\ UNCHANGED <<client_vars, gateway, args, inst_i, instrument_streams, stream_i,
                   searched, aux_vars>>

\* instrument_to_query up to the loop: resolve the instruments, check the
\* arguments
Call ==
    /\ pc = "idle"
    /\ instruments' = search_instruments(self_instruments, args.ref_des)
    /\ urls' = <<>>
    /\ pc' = IF Len(instruments') = 0 \/ RejectedUpFront(args) THEN "done" ELSE "fetch"
    /\ UNCHANGED <<client_vars, gateway, args, inst_i, instrument_streams, stream_i,
                   searched, aux_vars>>

\* the head of the loop over the instruments: fetch_instrument_streams
\* (build_request, send_request) and the stream filter
FetchStreams ==
    /\ pc = "fetch"
    /\ inst_i <= Len(instruments)
    /\ LET instrument == instruments[inst_i]
           url == build_request(is_m2m, SENSOR_PORT, StreamsEndPoint(instrument))
           r == GatewayGet(gateway, url)
           returned == SentResponse(is_m2m, url, r)
           found == IF returned = {} THEN <<>> ELSE CHOOSE j \in returned : TRUE
           \* a str where the list of streams is expected: indexing one of
           \* its characters by a key raises TypeError
           raises == SendRaises(is_m2m, url, r) \/ (returned # {} /\ r.text)
           kept == IF raises THEN <<>> ELSE FilterByStream(found, args.stream)
       IN  /\ request_url' = {url}
           /\ status_code' = SentStatus(is_m2m, url, r)
           /\ response' = returned
           /\ instrument_streams' = kept
           /\ stream_i' = 1
           /\ IF raises
              THEN inst_i' = inst_i /\ pc' = "raised"
              ELSE IF Len(kept) = 0
              THEN inst_i' = inst_i + 1 /\ pc' = "fetch"
              ELSE inst_i' = inst_i /\ pc' = "streams"
    /\ UNCHANGED <<self_instruments, is_m2m, gateway, args, instruments, urls, searched,
                   aux_vars>>

\* one pass of the loop over the streams of the instrument
ProcessStream ==
    /\ pc = "streams"
    /\ stream_i <= Len(instrument_streams)
    /\ LET o == StreamOutcome(args, is_m2m, instruments[inst_i],
                              instrument_streams[stream_i])
           last == stream_i = Len(instrument_streams)
       IN  /\ urls' = urls \o o.url
           /\ pc' = IF o.kind = "raise" THEN "raised"
                    ELSE IF last THEN "fetch" ELSE "streams"
           /\ stream_i' = IF o.kind # "raise" /\ ~last THEN stream_i + 1 ELSE stream_i
           /\ inst_i' = IF o.kind # "raise" /\ last THEN inst_i + 1 ELSE inst_i
    /\ UNCHANGED <<client_vars, gateway, args, instruments, instrument_streams, searched,
                   aux_vars>>

\* the loop over the instruments is over: return urls
Return ==
    /\ pc = "fetch"
    /\ inst_i > Len(instruments)
    /\ pc' = "done"
    /\ UNCHANGED <<client_vars, gateway, args, instruments, inst_i, instrument_streams,
                   stream_i, urls, searched, aux_vars>>

Next == Call \/ FetchStreams \/ ProcessStream \/ Return

Spec == Init /\ [][Next]_vars

SpecFilter == InitFilter /\ [][Next]_vars

SpecOptions == InitOptions /\ [][Next]_vars

NextSearch == \E p \in SearchPatterns : SearchInstruments(p)

SpecSearch == InitSearch /\ [][NextSearch]_vars

-----------------------------------------------------------------------------
(* The client's operations, from __init__ on *)

\* the end points of fetch_sensor_subsites, fetch_instrument_streams and
\* fetch_instrument_deployments
SubsitesEndPoint == [path |-> "/sensor/inv"]

FetchEndPoint(op, ref_des) ==
    CASE op = "fetch_sensor_subsites" -> SubsitesEndPoint
      [] op = "fetch_instrument_streams" -> StreamsEndPoint(ref_des)
      [] op = "fetch_instrument_deployments" ->
            [path |-> "/events/deployment/query", refdes |-> ref_des]

FetchPort(op) == IF op = "fetch_instrument_deployments" THEN DEPLOYMENT_PORT ELSE SENSOR_PORT

FetchOps ==
    {"fetch_sensor_subsites", "fetch_instrument_streams", "fetch_instrument_deployments"}

\* the answers of the remote end to a fetch: failures, an empty result, a
\* result, a body that is not JSON
FetchAnswers ==
    {ConnectionError, ReadTimeout, NotFound, Ok(<<>>), Ok(<<"x">>), OkText(<<>>)}

\* the answers to /sensor/inv and to /sensor/allstreams
InvAnswers == {Ok(<<"x">>), NotFound, ConnectionError, ReadTimeout}

AllStreamsAnswers ==
    {OkText(l) : l \in {<<>>, <<Listed1>>, <<Listed1, Listed1>>, <<Listed3, Listed1>>}}
    \cup {Ok(<<"x">>), NotFound, ConnectionError, ReadTimeout}

\* __init__ has returned the client
Built == last_call # NoCall

\* the caller may go on to its next call: the client is built, no call of
\* instrument_to_query is running (one caller at a time) and no exception
\* has ended the caller, which catches none
AtRest == Built /\ ~last_call.raised /\ pc \in {"idle", "done"}

\* the state after lines 40-56 of __init__, before it sets base_url
New(m2m) ==
    /\ is_m2m = m2m
    /\ self_instruments = <<>>
    /\ request_url = {}
    /\ response = {}
    /\ status_code = {}
    /\ base_url = {}
    /\ timeout = DEFAULT_TIMEOUT

\* one instrument with a stream, one whose lookup may fail in each way
ClientStream ==
    [stream |-> "a", method |-> Telemetered,
     beginTime |-> IsoTs(Hour, "Z", 3), endTime |-> IsoTs(2 * Hour, "Z", 3)]

\* the remote end at Base1 answers in every way; the one at Base2 is well
InitClient ==
    /\ New(TRUE)
    /\ \E i \in InvAnswers, a \in AllStreamsAnswers :
          /\ i # Ok(<<"x">>) => a = NotFound
          /\ servers = [b \in {Base1, Base2} |->
                           IF b = Base1 THEN [inv |-> i, allstreams |-> a]
                           ELSE [inv |-> Ok(<<"x">>), allstreams |-> OkText(<<Listed3>>)]]
    /\ gateway = [d \in RefDesUniverse |->
                     IF d = RefDes1 THEN NotFound ELSE Ok(<<ClientStream>>)]
    /\ args = DefaultArgs
    /\ Idle

\* the setter of base_url, which __init__ calls last and a user may call
\* again: fetch_sensor_subsites, then _create_instrument_list, each with its
\* send_request.  findall raises TypeError unless the response is a str
SetBaseUrl(url) ==
    /\ ~Built \/ AtRest
    /\ LET stripped == Strip(url)
           inv_url == build_request(is_m2m, SENSOR_PORT, SubsitesEndPoint)
           r1 == servers[stripped].inv
           all_url == build_request(is_m2m, SENSOR_PORT, AllStreamsEndPoint)
           r2 == servers[stripped].allstreams
           listed == SentResponse(is_m2m, all_url, r2)
       IN  IF url = "" \/ ~StartsWithHttp(url)
           THEN /\ last_call' = [op |-> "base_url", answer |-> NotFound, sent |-> FALSE,
                                 returned |-> {self_instruments}, raised |-> FALSE]
                /\ UNCHANGED <<client_vars, base_url>>
           ELSE IF SendRaises(is_m2m, inv_url, r1)
                   \/ SentStatus(is_m2m, inv_url, r1) # {HTTP_STATUS_OK}
           THEN /\ base_url' = {stripped}
                /\ request_url' = {inv_url}
                /\ status_code' = SentStatus(is_m2m, inv_url, r1)
                /\ response' = SentResponse(is_m2m, inv_url, r1)
                /\ last_call' = [op |-> "base_url", answer |-> r1, sent |-> TRUE,
                                 returned |-> {self_instruments},
                                 raised |-> SendRaises(is_m2m, inv_url, r1)]
                /\ UNCHANGED <<self_instruments, is_m2m>>
           ELSE /\ base_url' = {stripped}
                /\ request_url' = {all_url}
                /\ status_code' = SentStatus(is_m2m, all_url, r2)
                /\ response' = listed
                /\ self_instruments' =
                      IF listed = {} \/ ~r2.text THEN <<>>
                      ELSE _create_instrument_list(r2.json)
                /\ last_call' = [op |-> "base_url", answer |-> r2, sent |-> TRUE,
                                 returned |-> {self_instruments'},
                                 raised |-> (listed = {} \/ ~r2.text)]
                /\ UNCHANGED is_m2m
    /\ UNCHANGED <<timeout, servers, gateway, call_vars, searched, thr, script_vars, caller_vars>>

\* the setter of is_m2m; a status whose type is not bool is refused
SetIsM2m(is_bool, status) ==
    /\ AtRest
    /\ is_m2m' = IF is_bool THEN status ELSE is_m2m
    /\ last_call' = [op |-> "is_m2m", answer |-> NotFound, sent |-> FALSE,
                     returned |-> {}, raised |-> FALSE]
    /\ UNCHANGED <<self_instruments, request_url, response, status_code, ext_vars,
                   gateway, call_vars, searched, thr, script_vars, caller_vars>>

\* the setter of timeout; seconds whose type is not int are refused
SetTimeout(is_int, seconds) ==
    /\ AtRest
    /\ timeout' = IF is_int THEN seconds ELSE timeout
    /\ last_call' = [op |-> "timeout", answer |-> NotFound, sent |-> FALSE,
                     returned |-> {}, raised |-> FALSE]
    /\ UNCHANGED <<client_vars, base_url, servers, gateway, call_vars, searched, thr, script_vars, caller_vars>>

\* a send_request that sets the fields it has a value for and leaves the
\* others as the request before left them
SendRequest_NoReset(op, url, r) ==
    /\ AtRest
    /\ base_url # {}
    /\ request_url' = {url}
    /\ status_code' = IF SentStatus(is_m2m, url, r) = {} THEN status_code
                      ELSE SentStatus(is_m2m, url, r)
    /\ response' = IF SentResponse(is_m2m, url, r) = {} THEN response
                   ELSE SentResponse(is_m2m, url, r)
    /\ last_call' = [op |-> op, answer |-> r, sent |-> UrlAccepted(is_m2m, url),
                     returned |-> SentResponse(is_m2m, url, r),
                     raised |-> SendRaises(is_m2m, url, r), url |-> url]
    /\ UNCHANGED <<self_instruments, is_m2m, ext_vars, gateway, call_vars, searched, thr, script_vars, caller_vars>>

\* send_request(url), the remote end answering r
SendRequest(op, url, r) ==
    /\ AtRest
    /\ base_url # {}
    /\ request_url' = {url}
    /\ status_code' = SentStatus(is_m2m, url, r)
    /\ response' = SentResponse(is_m2m, url, r)
    /\ last_call' = [op |-> op, answer |-> r, sent |-> UrlAccepted(is_m2m, url),
                     returned |-> SentResponse(is_m2m, url, r),
                     raised |-> SendRaises(is_m2m, url, r), url |-> url]
    /\ UNCHANGED <<self_instruments, is_m2m, ext_vars, gateway, call_vars, searched, thr, script_vars, caller_vars>>

\* one of the fetch methods: build_request, then send_request
Fetch(op, ref_des, r) ==
    SendRequest(op, build_request(is_m2m, FetchPort(op), FetchEndPoint(op, ref_des)), r)

\* search_instruments, noted as the last call
Search(ref_des) ==
    /\ AtRest
    /\ last_call' = [op |-> "search_instruments", answer |-> NotFound, sent |-> FALSE,
                     returned |-> {search_instruments(self_instruments, ref_des)},
                     raised |-> FALSE]
    /\ UNCHANGED <<client_vars, ext_vars, gateway, call_vars, searched, thr, script_vars, caller_vars>>

NextClient ==
    \/ \E url \in BaseUrlArgs : SetBaseUrl(url)
    \/ \E is_bool \in BOOLEAN, status \in BOOLEAN : SetIsM2m(is_bool, status)
    \/ \E is_int \in BOOLEAN : SetTimeout(is_int, 30)
    \/ \E op \in FetchOps, r \in FetchAnswers : Fetch(op, RefDes1, r)
    \/ \E m2m \in BOOLEAN, r \in {NotFound, Ok(<<>>)} :
          SendRequest("send_request", build_request(m2m, SENSOR_PORT, SubsitesEndPoint), r)
    \/ \E p \in {<<>>, <<"B">>} : Search(p)
    \/ (AtRest /\ Call)
    \/ FetchStreams
    \/ ProcessStream
    \/ Return

SpecClient == InitClient /\ [][NextClient]_vars

-----------------------------------------------------------------------------
(* A caller that calls instrument_to_query again and again, with lookups of
   its own in between *)

\* the second instrument: a streams lookup that fails or gives a stream
RepeatAnswers ==
    {NotFound, ConnectionError,
     Ok(<<[stream |-> "b", method |-> RecoveredHost,
           beginTime |-> IsoTs(Hour, "Z", 3), endTime |-> IsoTs(2 * Hour, "Z", 3)]>>)}

RepeatArgs ==
    {[DefaultArgs EXCEPT !.annotations = an, !.time_check = tc] :
        an \in BOOLEAN, tc \in BOOLEAN}

\* the answers to the caller's own lookups
LookupAnswers == {ConnectionError, NotFound, Ok(<<"x">>)}

InitRepeat ==
    /\ Constructed(<<Listed1, Listed2>>, TRUE)
    /\ \E r \in RepeatAnswers :
          gateway = [d \in RefDesUniverse |->
                        IF d = RefDes1 THEN Ok(<<ClientStream>>)
                        ELSE IF d = RefDes2 THEN r ELSE NotFound]
    /\ args \in RepeatArgs
    /\ pc = "idle"
    /\ instruments = <<>>
    /\ inst_i = 1
    /\ instrument_streams = <<>>
    /\ stream_i = 1
    /\ urls = <<>>
    /\ searched = {}
    /\ last_call = [op |-> "base_url", answer |-> OkText(<<Listed1, Listed2>>),
                    sent |-> TRUE, returned |-> {self_instruments}, raised |-> FALSE]
    /\ thr = NoThreads
    /\ NoScript

\* the caller takes the list instrument_to_query returned and calls again
\* with the arguments a: the locals of the call are new, the variables the
\* call assigns before it reads them are left as they are
CallAgain(a) ==
    /\ pc = "done"
    /\ history' = history \cup {[args |-> args, urls |-> urls]}
    /\ args' = a
    /\ pc' = "idle"
    /\ inst_i' = 1
    /\ instrument_streams' = <<>>
    /\ stream_i' = 1
    /\ UNCHANGED <<client_vars, gateway, instruments, urls, searched, ext_vars, last_call,
                   thr, script_vars, cli, request_urls>>

NextRepeat ==
    \/ Call
    \/ FetchStreams
    \/ ProcessStream
    \/ Return
    \/ \E a \in RepeatArgs : CallAgain(a)
    \/ \E op \in FetchOps, r \in LookupAnswers : Fetch(op, RefDes1, r)

SpecRepeat == InitRepeat /\ [][NextRepeat]_vars

-----------------------------------------------------------------------------
(* scripts/request_instrument_stream_nc.py *)

\* --time_delta_type: not given (""), or one of the choices
CliDeltaTypes == {"", "hours", "days"}

\* --time_delta_value: not given ({}), or an int
CliDeltaValues == {{}, {0}, {1}}

\* --start_date and --end_date: not given, or a string
CliDates == {NoTs, JunkTs} \cup {IsoTs(h * Hour, "Z", 0) : h \in 1..MaxTick}

\* the command lines
RequestClis ==
    {[script |-> "request", ref_des |-> rd, stream |-> st, start_date |-> b,
      end_date |-> e, time_delta_type |-> dt, time_delta_value |-> dv,
      no_dpa |-> dpa, no_provenance |-> TRUE, printurl |-> pu] :
        rd \in {RefDes1, RefDes3}, st \in {"a", "z"}, b \in CliDates, e \in CliDates,
        dt \in CliDeltaTypes, dv \in CliDeltaValues, dpa \in BOOLEAN, pu \in BOOLEAN}

\* the arguments main passes to instrument_to_query; the parser's defaults
\* stand in for the delta options that were not given: days and 1
RequestArgs(c) ==
    [DefaultArgs EXCEPT
        !.ref_des = c.ref_des,
        !.user = "anonymous",
        !.stream = c.stream,
        !.time_delta_type = IF c.time_delta_type = "" THEN "days" ELSE c.time_delta_type,
        !.time_delta_value = IF c.time_delta_value = {} THEN 1
                             ELSE CHOOSE v \in c.time_delta_value : TRUE,
        !.begin_ts = c.start_date,
        !.end_ts = c.end_date,
        !.exec_dpa = c.no_dpa,
        !.provenance = c.no_provenance]

\* the stream of the instrument: from the first to the last hour
RequestStream ==
    [stream |-> "a", method |-> Telemetered,
     beginTime |-> IsoTs(Hour, "Z", 3), endTime |-> IsoTs(MaxTick * Hour, "Z", 3)]

\* main has built the client (line 35)
InitRequest ==
    /\ Constructed(<<Listed1>>, TRUE)
    /\ \E r \in {Ok(<<RequestStream>>), Ok(<<>>), NotFound} :
          gateway = [d \in RefDesUniverse |-> IF d = RefDes1 THEN r ELSE NotFound]
    /\ args = DefaultArgs
    /\ NotCalled
    /\ thr = NoThreads
    /\ script = "request"
    /\ script_pc = "start"
    /\ now = 0
    /\ status_arg = "all"
    /\ fetched = <<>>
    /\ all_deployments = <<>>
    /\ d_i = 1
    /\ dep_streams = <<>>
    /\ deployment_status = <<>>
    /\ cli \in RequestClis
    /\ request_urls = <<>>
    /\ history = {}

\* main, lines 37-56: the reference designator must be in the catalog and
\* the instrument must produce the stream; iterating over the None of a
\* failed lookup raises TypeError.  Then the call of instrument_to_query
RequestMain ==
    /\ script = "request"
    /\ script_pc = "start"
    /\ LET known == \E i \in DOMAIN self_instruments : self_instruments[i] = cli.ref_des
           url == build_request(is_m2m, SENSOR_PORT, StreamsEndPoint(cli.ref_des))
           r == GatewayGet(gateway, url)
           returned == SentResponse(is_m2m, url, r)
           stream_metadata == CHOOSE j \in returned : TRUE
           names == {stream_metadata[i].stream : i \in DOMAIN stream_metadata}
       IN  IF ~known
           THEN /\ script_pc' = "done"
                /\ UNCHANGED <<request_url, status_code, response, args>>
           ELSE /\ request_url' = {url}
                /\ status_code' = SentStatus(is_m2m, url, r)
                /\ response' = returned
                /\ IF returned = {}
                   THEN script_pc' = "raised" /\ args' = args
                   ELSE IF cli.stream \notin names
                   THEN script_pc' = "done" /\ args' = args
                   ELSE script_pc' = "called" /\ args' = RequestArgs(cli)
    /\ UNCHANGED <<self_instruments, is_m2m, gateway, pc, instruments, inst_i,
                   instrument_streams, stream_i, urls, searched, ext_vars, last_call, thr,
                   script, now, status_arg, fetched, all_deployments, d_i, dep_streams,
                   deployment_status, caller_vars>>

\* main, from line 58 on: the urls are printed, or the first of them is
\* sent; urls[0] of an empty list raises IndexError
RequestEnd ==
    /\ script = "request"
    /\ script_pc = "called"
    /\ pc \in {"done", "raised"}
    /\ request_urls' = IF pc = "done" THEN urls ELSE request_urls
    /\ script_pc' = IF pc = "raised" THEN "raised"
                    ELSE IF cli.printurl THEN "printed"
                    ELSE IF Len(urls) = 0 THEN "raised"
                    ELSE "sent"
    /\ UNCHANGED <<client_vars, gateway, call_vars, searched, ext_vars, last_call, thr,
                   script, now, status_arg, fetched, all_deployments, d_i, dep_streams,
                   deployment_status, cli, history>>

NextRequest ==
    \/ RequestMain
    \/ (script_pc = "called" /\ Call)
    \/ FetchStreams
    \/ ProcessStream
    \/ Return
    \/ RequestEnd

SpecRequest == InitRequest /\ [][NextRequest]_vars

-----------------------------------------------------------------------------
(* Lookups in threads: send_request, statement by statement *)

Threads == {1, 2}

\* the instrument whose streams thread t fetches: a different one each
ThreadInstrument(t) == <<RefDes1, RefDes2>>[t]

ThreadAnswers == {ConnectionError, NotFound, Ok(<<>>), Ok(<<ClientStream>>)}

\* thread t is about to call fetch_instrument_streams, which builds the url
\* and calls send_request
ThreadCalling(t) ==
    [pc |-> "call",
     url |-> build_request(TRUE, SENSOR_PORT, StreamsEndPoint(ThreadInstrument(t))),
     r |-> NotFound, returned |-> {}]

InitConcurrent ==
    /\ Constructed(<<Listed1, Listed2>>, TRUE)
    /\ gateway \in [RefDesUniverse -> ThreadAnswers]
    /\ gateway[RefDes3] = NotFound
    /\ args = DefaultArgs
    /\ NotCalled
    /\ NoScript
    /\ thr = [t \in Threads |-> ThreadCalling(t)]

\* lines 262-272: note the url, reset the fields, check the url
ThrReset(t) ==
    /\ thr[t].pc = "call"
    /\ request_url' = {thr[t].url}
    /\ response' = {}
    /\ status_code' = {}
    /\ thr' = [thr EXCEPT ![t].pc = IF UrlAccepted(is_m2m, thr[t].url) THEN "get" ELSE "done"]
    /\ UNCHANGED <<self_instruments, is_m2m, gateway, call_vars, searched, ext_vars,
                   last_call, script_vars, caller_vars>>

\* lines 274-286: the GET; its answer is the local r
ThrGet(t) ==
    /\ thr[t].pc = "get"
    /\ LET r == GatewayGet(gateway, thr[t].url)
       IN  thr' = [thr EXCEPT ![t].r = r,
                              ![t].pc = IF r.raises THEN "done"
                                        ELSE IF r.timeout THEN "raised" ELSE "status"]
    /\ UNCHANGED <<client_vars, gateway, call_vars, searched, ext_vars, last_call, script_vars, caller_vars>>

\* line 288: self._status_code = r.status_code
ThrSetStatus(t) ==
    /\ thr[t].pc = "status"
    /\ status_code' = {thr[t].r.status_code}
    /\ thr' = [thr EXCEPT ![t].pc = "test"]
    /\ UNCHANGED <<self_instruments, is_m2m, request_url, response, gateway, call_vars,
                   searched, ext_vars, last_call, script_vars, caller_vars>>

\* lines 289-291: the test reads self._status_code
ThrTestStatus(t) ==
    /\ thr[t].pc = "test"
    /\ thr' = [thr EXCEPT ![t].pc = IF status_code # {HTTP_STATUS_OK} THEN "done"
                                    ELSE "response"]
    /\ UNCHANGED <<client_vars, gateway, call_vars, searched, ext_vars, last_call, script_vars, caller_vars>>

\* lines 293-299: self._response = r.json()
ThrSetResponse(t) ==
    /\ thr[t].pc = "response"
    /\ response' = {thr[t].r.json}
    /\ thr' = [thr EXCEPT ![t].pc = "return"]
    /\ UNCHANGED <<self_instruments, is_m2m, request_url, status_code, gateway, call_vars,
                   searched, ext_vars, last_call, script_vars, caller_vars>>

\* line 301: return self._response
ThrReturn(t) ==
    /\ thr[t].pc = "return"
    /\ thr' = [thr EXCEPT ![t].returned = response, ![t].pc = "done"]
    /\ UNCHANGED <<client_vars, gateway, call_vars, searched, ext_vars, last_call, script_vars, caller_vars>>

NextConcurrent ==
    \E t \in Threads :
        \/ ThrReset(t)
        \/ ThrGet(t)
        \/ ThrSetStatus(t)
        \/ ThrTestStatus(t)
        \/ ThrSetResponse(t)
        \/ ThrReturn(t)

SpecConcurrent == InitConcurrent /\ [][NextConcurrent]_vars

-----------------------------------------------------------------------------
(* The deployment scripts: scripts/fetch_instrument_deployments.py ("fetch"),
   scripts/show_instrument_deployment_status.py ("show") and
   build_instrument_deployment_requests.py ("build") *)

\* utcfromtimestamp accepts the seconds 0 .. MaxSecond and raises ValueError
\* beyond
MaxSecond == 1

\* eventStartTime and eventStopTime: None ({}) or milliseconds since the epoch
Millis == {500 * k : k \in 1..(2 * MaxSecond + 2)}

EventTimes == {{}, {0}} \cup {{ms} : ms \in Millis}

\* datetime.utcnow(), in milliseconds
Nows == {500 * k : k \in 1..(2 * MaxSecond + 1)}

\* the truth value of an optional number: None and 0 are false
Truthy(t) == t # {} /\ t # {0}

\* utcfromtimestamp(ms / 1000) raises ValueError
OutOfRange(ms) == ms \div 1000 > MaxSecond

\* datetime.utcfromtimestamp(ms / 1000).replace(tzinfo=pytz.UTC), where / is
\* the division of two ints: the whole seconds
FromMillis(ms) == [wall |-> ms \div 1000, aware |-> TRUE, utcoffset |-> 0]

\* the instant of a datetime in milliseconds
MsOf(dt) == Instant(dt) * 1000

\* dt.strftime('%Y-%m-%dT%H:%M:%SZ')
StrftimeZ(dt) == IsoTs(dt.wall, "Z", 0)

RECURSIVE Digits(_)
\* the number of digits of n >= 0
Digits(n) == IF n < 10 THEN 1 ELSE 1 + Digits(n \div 10)

\* dt.strftime('%Y-%m-%dT%H:%M:%S.%sZ'): %s writes the seconds since the
\* epoch after the dot
StrftimeEpoch(dt) == IsoTs(dt.wall, "Z", Digits(dt.wall))

\* a deployment event as the gateway returns it; the keys the scripts add
\* are unset
RawEvent(n, is_dict, start, stop) ==
    [deploymentNumber |-> n,
     referenceDesignator |->
         [is_dict |-> is_dict,
          subsite |-> IF is_dict THEN <<"A">> ELSE <<>>,
          node |-> IF is_dict THEN <<"A">> ELSE <<>>,
          sensor |-> IF is_dict THEN <<"0", "-", "B">> ELSE <<>>,
          text |-> IF is_dict THEN <<>> ELSE RefDes2],
     eventStartTime |-> start, eventStopTime |-> stop,
     ref_des |-> {}, eventStartTs |-> {}, eventStopTs |-> {}, active |-> {}]

\* d['ref_des']: the reference designator, joined when it comes as a dict
RefDesOf(d) ==
    LET rd == d.referenceDesignator
    IN  IF rd.is_dict THEN Join(<<rd.subsite, rd.node, rd.sensor>>, "-")
        ELSE rd.text

\* client.filter_deployments_by_status as the evaluation instant at makes it:
\* active iff eventStopTime is absent or at/after at
filter_deployments_by_status(deployments, status, at) ==
    LET IsActive(d) == d.eventStopTime = {} \/ \E ms \in d.eventStopTime : ms >= at
        IsInactive(d) == ~IsActive(d)
    IN  CASE status = "active" -> SelectSeq(deployments, IsActive)
          [] status = "inactive" -> SelectSeq(deployments, IsInactive)
          [] OTHER -> deployments

\* the status filter the build and show scripts of src/ write in line
FilterByStatus(deployments, status) ==
    LET Stopped(d) == Truthy(d.eventStopTime)
        Open(d) == ~Truthy(d.eventStopTime)
    IN  CASE status = "active" -> SelectSeq(deployments, Open)
          [] status = "inactive" -> SelectSeq(deployments, Stopped)
          [] OTHER -> deployments

\* the body of the loop of the fetch script for an event whose eventStartTime
\* is a number
Classified(d, at) ==
    LET start == CHOOSE ms \in d.eventStartTime : TRUE
        stop == CHOOSE ms \in d.eventStopTime : TRUE
    IN  [d EXCEPT
            !.ref_des = {RefDesOf(d)},
            !.eventStartTs = IF OutOfRange(start) THEN {}
                             ELSE {StrftimeZ(FromMillis(start))},
            !.eventStopTs = IF Truthy(d.eventStopTime) /\ ~OutOfRange(stop)
                            THEN {StrftimeZ(FromMillis(stop))} ELSE {},
            !.active = IF ~Truthy(d.eventStopTime) THEN {TRUE}
                       ELSE IF OutOfRange(stop) THEN {FALSE}
                       ELSE {MsOf(FromMillis(stop)) >= at}]

\* the overlap test with strict comparisons turned into non-strict ones
deployment_has_particles_Strict(dt0, dt1, st0, st1) ==
    IF ~DtLess(dt0, st1) THEN FALSE
    ELSE IF dt1 # {} /\ \E x \in dt1 : ~DtLess(st0, x) THEN FALSE
    ELSE TRUE

\* status['deployment_has_particles']; dt1 is None ({}) or a datetime
deployment_has_particles(dt0, dt1, st0, st1) ==
    IF DtLess(st1, dt0) THEN FALSE
    ELSE IF dt1 # {} /\ \E x \in dt1 : DtLess(x, st0) THEN FALSE
    ELSE TRUE

\* the rows the show script appends for one event: one for each stream that
\* passes the telemetry filter and whose times parse
StatusRows(d, dt0, dt1, active_status, streams, a) ==
    LET Kept(s) == ~TelemetrySkips(a, s) /\ Parses(s.beginTime) /\ Parses(s.endTime)
        kept == SelectSeq(streams, Kept)
    IN  [i \in 1..Len(kept) |->
            [reference_designator |-> RefDesOf(d),
             stream |-> kept[i].stream,
             telemetry |-> kept[i].method,
             deployment_number |-> d.deploymentNumber,
             active |-> active_status,
             deployment_has_particles |->
                 deployment_has_particles(dt0, dt1, Parse(kept[i].beginTime),
                                          Parse(kept[i].endTime)),
             deployment_start_time |-> StrftimeEpoch(dt0),
             deployment_end_time |->
                 IF dt1 = {} THEN NoTs ELSE StrftimeEpoch(CHOOSE x \in dt1 : TRUE),
             stream_start_time |-> kept[i].beginTime,
             stream_end_time |-> kept[i].endTime,
             stream_particle_count |-> kept[i].count]]

(* The values the scripts run on *)

\* an event with a start and no stop
GoodEvent(n, is_dict) == RawEvent(n, is_dict, {500}, {})

\* no event, one event of any kind, or one beside a good one
EventLists ==
    {<<>>}
    \cup {<<RawEvent(1, TRUE, s, p)>> : s \in EventTimes, p \in EventTimes}
    \cup {<<RawEvent(1, TRUE, s, p), GoodEvent(2, FALSE)>> :
              s \in EventTimes, p \in EventTimes}
    \cup {<<GoodEvent(1, FALSE), RawEvent(2, TRUE, s, p)>> :
              s \in EventTimes, p \in EventTimes}

StreamTimes == {IsoTs(s, "Z", 3) : s \in 0..MaxSecond} \cup {JunkTs}

DeployStream(name, method, b, e) ==
    [stream |-> name, method |-> method, beginTime |-> b, endTime |-> e,
     count |-> 1]

\* what fetch_instrument_streams returned: nothing, one stream, or two of
\* different methods
StreamLists ==
    {<<>>}
    \cup {<<DeployStream("a", Telemetered, b, e)>> : b \in StreamTimes, e \in StreamTimes}
    \cup {<<DeployStream("a", Telemetered, IsoTs(0, "Z", 3), IsoTs(MaxSecond, "Z", 3)),
            DeployStream("b", RecoveredHost, IsoTs(0, "Z", 3), IsoTs(0, "Z", 3))>>}

Scripts == {"fetch", "show", "build"}

Statuses == {"active", "inactive", "all"}

\* a script has fetched the deployments (and the show script the streams) of
\* one instrument and is about to filter them
InitDeploy ==
    /\ Constructed(<<Listed1>>, TRUE)
    /\ gateway = [d \in RefDesUniverse |-> NotFound]
    /\ NotCalled
    /\ thr = NoThreads
    /\ script \in Scripts
    /\ script_pc = "start"
    /\ now \in Nows
    /\ status_arg \in Statuses
    /\ fetched \in EventLists
    /\ all_deployments = fetched
    /\ d_i = 1
    /\ dep_streams \in (IF script = "show" THEN StreamLists ELSE {<<>>})
    /\ args \in (IF script = "show" /\ Len(dep_streams) = 2
                 THEN {DefaultArgs, [DefaultArgs EXCEPT !.telemetry = <<"r">>]}
                 ELSE {DefaultArgs})
    /\ deployment_status = <<>>
    /\ cli = NoCli
    /\ request_urls = <<>>
    /\ history = {}

\* what the scripts never touch
client_side ==
    <<client_vars, gateway, call_vars, searched, ext_vars, last_call, thr, caller_vars>>

\* fetch script, line 45: the filter
StartFetch ==
    /\ script = "fetch"
    /\ script_pc = "start"
    /\ all_deployments' = filter_deployments_by_status(fetched, status_arg, now)
    /\ script_pc' = "loop"
    /\ UNCHANGED <<script, now, status_arg, fetched, d_i, dep_streams,
                   deployment_status, client_side>>

\* fetch script, one turn of the loop of lines 49-80; None / 1000 raises
\* TypeError, which nothing catches
ClassifyEvent ==
    /\ script = "fetch"
    /\ script_pc = "loop"
    /\ d_i <= Len(all_deployments)
    /\ LET d == all_deployments[d_i]
       IN  IF d.eventStartTime = {}
           THEN /\ all_deployments' =
                       [all_deployments EXCEPT ![d_i].ref_des = {RefDesOf(d)}]
                /\ script_pc' = "raised"
                /\ d_i' = d_i
           ELSE /\ all_deployments' =
                       [all_deployments EXCEPT ![d_i] = Classified(d, now)]
                /\ script_pc' = "loop"
                /\ d_i' = d_i + 1
    /\ UNCHANGED <<script, now, status_arg, fetched, dep_streams,
                   deployment_status, client_side>>

\* show script, lines 49-64: the early exits, the filter and the streams
StartShow ==
    /\ script = "show"
    /\ script_pc = "start"
    /\ LET filtered == filter_deployments_by_status(fetched, status_arg, now)
       IN  /\ all_deployments' = filtered
           /\ script_pc' =
                 IF Len(fetched) = 0 THEN "done"
                 ELSE IF Len(filtered) = 0 /\ status_arg # "all" THEN "done"
                 ELSE IF Len(dep_streams) = 0 THEN "done"
                 ELSE "loop"
    /\ UNCHANGED <<script, now, status_arg, fetched, d_i, dep_streams,
                   deployment_status, client_side>>

\* show script, one turn of the loop of lines 66-150, the loop over the
\* streams included
ReportEvent ==
    /\ script = "show"
    /\ script_pc = "loop"
    /\ d_i <= Len(all_deployments)
    /\ LET d == [all_deployments[d_i] EXCEPT !.ref_des = {RefDesOf(all_deployments[d_i])}]
           start == CHOOSE ms \in d.eventStartTime : TRUE
           stop == CHOOSE ms \in d.eventStopTime : TRUE
           skipped == IF ~Truthy(d.eventStartTime) THEN TRUE ELSE OutOfRange(start)
           stopped == IF Truthy(d.eventStopTime) THEN ~OutOfRange(stop) ELSE FALSE
           dt0 == FromMillis(start)
           dt1 == IF stopped THEN {FromMillis(stop)} ELSE {}
           active_status == IF stopped THEN ~(MsOf(FromMillis(stop)) < now) ELSE TRUE
       IN  IF skipped
           THEN /\ all_deployments' = [all_deployments EXCEPT ![d_i] = d]
                /\ deployment_status' = deployment_status
           ELSE /\ all_deployments' =
                       [all_deployments EXCEPT ![d_i] =
                           IF stopped
                           THEN [d EXCEPT !.eventStopTs = {StrftimeZ(FromMillis(stop))}]
                           ELSE d]
                /\ deployment_status' =
                       deployment_status
                       \o StatusRows(d, dt0, dt1, active_status, dep_streams, args)
    /\ d_i' = d_i + 1
    /\ UNCHANGED <<script, script_pc, now, status_arg, fetched, dep_streams,
                   client_side>>

\* the loop of the fetch or the show script is over
ScriptReturn ==
    /\ script \in {"fetch", "show"}
    /\ script_pc = "loop"
    /\ d_i > Len(all_deployments)
    /\ script_pc' = "done"
    /\ UNCHANGED <<script, now, status_arg, fetched, all_deployments, d_i,
                   dep_streams, deployment_status, client_side>>

\* build script, lines 46-53: nothing fetched ends the script, else the
\* status filter
StartBuild ==
    /\ script = "build"
    /\ script_pc = "start"
    /\ all_deployments' = FilterByStatus(fetched, status_arg)
    /\ script_pc' = IF Len(fetched) = 0 THEN "done" ELSE "filtered"
    /\ UNCHANGED <<script, now, status_arg, fetched, d_i, dep_streams,
                   deployment_status, client_side>>

NextDeploy ==
    \/ StartFetch
    \/ ClassifyEvent
    \/ StartShow
    \/ ReportEvent
    \/ ScriptReturn
    \/ StartBuild

SpecDeploy == InitDeploy /\ [][NextDeploy]_vars

-----------------------------------------------------------------------------
(* build_instrument_deployment_requests.py after its status filter: a request
   for every stream of every deployment *)

\* the command lines: --stream (text, empty when not given) and
\* --no_time_check
BuildClis ==
    {[script |-> "build", stream |-> st, time_check |-> tc] :
        st \in {<<>>, <<"a">>, <<"a", "b">>}, tc \in BOOLEAN}

\* the deployments of the instrument: one event of any kind
BuildEvents ==
    {<<RawEvent(1, TRUE, s, p)>> : s \in EventTimes, p \in EventTimes}

\* the streams of the instrument: a failed lookup, none, one, or two
BuildAnswers ==
    {NotFound, ReadTimeout}
    \cup {Ok(l) : l \in StreamLists}

\* the window of the deployment d as main takes it: dt0, and dt1 with the
\* time of the run for an event without eventStopTime
BuildDt0(d) == FromMillis(CHOOSE ms \in d.eventStartTime : TRUE)

BuildDt1(d, at) ==
    IF Truthy(d.eventStopTime) THEN FromMillis(CHOOSE ms \in d.eventStopTime : TRUE)
    ELSE FromMillis(at)

\* the event is passed over: no start, or a start or a stop that
\* utcfromtimestamp rejects
BuildSkipsEvent(d) ==
    \/ ~Truthy(d.eventStartTime)
    \/ \E ms \in d.eventStartTime : OutOfRange(ms)
    \/ (Truthy(d.eventStopTime) /\ \E ms \in d.eventStopTime : OutOfRange(ms))

\* the stream is passed over: not the wanted one, bounds that do not parse,
\* or an end before the deployment begins
BuildSkipsStream(c, d, st, at) ==
    \/ (c.stream # <<>> /\ Find(c.stream, <<st.stream>>) = -1)
    \/ ~Parses(st.beginTime)
    \/ ~Parses(st.endTime)
    \/ DtLess(Parse(st.endTime), BuildDt0(d))

\* the arguments of the call of instrument_to_query for the deployment d and
\* the stream st
BuildArgs(c, d, st, at) ==
    [DefaultArgs EXCEPT
        !.ref_des = RefDesOf(d),
        !.stream = st.stream,
        !.begin_ts = StrftimeEpoch(BuildDt0(d)),
        !.end_ts = StrftimeEpoch(BuildDt1(d, at)),
        !.time_check = c.time_check]

InitBuild ==
    /\ Constructed(<<Listed1>>, TRUE)
    /\ \E r \in BuildAnswers :
          gateway = [d \in RefDesUniverse |-> IF d = RefDes1 THEN r ELSE NotFound]
    /\ args = DefaultArgs
    /\ NotCalled
    /\ thr = NoThreads
    /\ script = "build"
    /\ script_pc = "start"
    /\ now \in Nows
    /\ status_arg \in Statuses
    /\ fetched \in BuildEvents
    /\ all_deployments = fetched
    /\ d_i = 1
    /\ dep_streams = <<>>
    /\ deployment_status = <<>>
    /\ cli \in BuildClis
    /\ request_urls = <<>>
    /\ history = {}

\* lines 60-98: the head of the loop over the deployments, with the lookup
\* of the streams of the instrument
BuildEvent ==
    /\ script = "build"
    /\ script_pc = "filtered"
    /\ d_i <= Len(all_deployments)
    /\ LET d == all_deployments[d_i]
           url == build_request(is_m2m, SENSOR_PORT, StreamsEndPoint(RefDesOf(d)))
           r == GatewayGet(gateway, url)
           returned == SentResponse(is_m2m, url, r)
           streams == IF returned = {} THEN <<>> ELSE CHOOSE j \in returned : TRUE
       IN  /\ all_deployments' = [all_deployments EXCEPT ![d_i].ref_des = {RefDesOf(d)}]
           /\ request_url' = {url}
           /\ status_code' = SentStatus(is_m2m, url, r)
           /\ response' = returned
           /\ IF SendRaises(is_m2m, url, r)
              THEN script_pc' = "raised" /\ d_i' = d_i /\ dep_streams' = <<>>
              ELSE IF Len(streams) = 0 \/ BuildSkipsEvent(d)
              THEN script_pc' = "filtered" /\ d_i' = d_i + 1 /\ dep_streams' = <<>>
              ELSE script_pc' = "streams" /\ d_i' = d_i /\ dep_streams' = streams
    /\ UNCHANGED <<self_instruments, is_m2m, gateway, call_vars, searched, ext_vars,
                   last_call, thr, script, now, status_arg, fetched, deployment_status,
                   caller_vars>>

\* lines 99-144: one turn of the loop over the streams, up to the call of
\* instrument_to_query; after the last stream the next deployment
BuildStream ==
    /\ script = "build"
    /\ script_pc = "streams"
    /\ IF Len(dep_streams) = 0
       THEN /\ script_pc' = "filtered"
            /\ d_i' = d_i + 1
            /\ UNCHANGED <<dep_streams, args, pc, inst_i, instrument_streams, stream_i>>
       ELSE IF BuildSkipsStream(cli, all_deployments[d_i], Head(dep_streams), now)
       THEN /\ dep_streams' = Tail(dep_streams)
            /\ UNCHANGED <<script_pc, d_i, args, pc, inst_i, instrument_streams, stream_i>>
       ELSE /\ args' = BuildArgs(cli, all_deployments[d_i], Head(dep_streams), now)
            /\ script_pc' = "called"
            /\ pc' = "idle"
            /\ inst_i' = 1
            /\ instrument_streams' = <<>>
            /\ stream_i' = 1
            /\ UNCHANGED <<dep_streams, d_i>>
    /\ UNCHANGED <<client_vars, gateway, instruments, urls, searched, ext_vars, last_call,
                   thr, script, now, status_arg, fetched, all_deployments,
                   deployment_status, caller_vars>>

\* lines 146-150: the urls of the call are added to request_urls
BuildCollect ==
    /\ script = "build"
    /\ script_pc = "called"
    /\ pc \in {"done", "raised"}
    /\ IF pc = "raised"
       THEN script_pc' = "raised" /\ UNCHANGED <<request_urls, dep_streams>>
       ELSE /\ request_urls' = request_urls \o urls
            /\ dep_streams' = Tail(dep_streams)
            /\ script_pc' = "streams"
    /\ UNCHANGED <<client_vars, gateway, call_vars, searched, ext_vars, last_call, thr,
                   script, now, status_arg, fetched, all_deployments, d_i,
                   deployment_status, cli, history>>

\* lines 152-159: the loop over the deployments is over, the urls are written
BuildReturn ==
    /\ script = "build"
    /\ script_pc = "filtered"
    /\ d_i > Len(all_deployments)
    /\ script_pc' = "done"
    /\ UNCHANGED <<client_side, script, now, status_arg, fetched, all_deployments, d_i,
                   dep_streams, deployment_status>>

NextBuild ==
    \/ StartBuild
    \/ BuildEvent
    \/ BuildStream
    \/ (script_pc = "called" /\ Call)
    \/ FetchStreams
    \/ ProcessStream
    \/ Return
    \/ BuildCollect
    \/ BuildReturn

SpecBuild == InitBuild /\ [][NextBuild]_vars

-----------------------------------------------------------------------------
(* What the claims speak of *)

\* the instant a timestamp string denotes (utc when it names no zone)
TextInstant(ts) == ts.wall - ZoneOffset(ts.zone)

UrlStart(u) == TextInstant(u.end_point.beginDT)

UrlEnd(u) == TextInstant(u.end_point.endDT)

Returned == pc = "done"

Ended == pc \in {"done", "raised"}

Max2(x, y) == IF x >= y THEN x ELSE y

Min2(x, y) == IF x <= y THEN x ELSE y

\* Under Spec the catalog holds one instrument, which has one stream
TheStream == gateway[RefDes1].json[1]

S0 == TextInstant(TheStream.beginTime)

S1 == TextInstant(TheStream.endTime)

\* mode B: both delta arguments supplied, the unit a recognised one
ModeB ==
    /\ args.time_delta_type \in _valid_relativedeltatypes
    /\ args.time_delta_value > 0

\* mode A: no relative delta supplied
ModeA == args.time_delta_type = "" \/ args.time_delta_value = 0

DeltaLength == args.time_delta_value * UnitSeconds[args.time_delta_type]

ExplicitOk == args.begin_ts.text # "junk" /\ args.end_ts.text # "junk"

\* the window the caller asks for, as instants
AskedStart ==
    IF ModeB THEN S1 - DeltaLength
    ELSE IF args.begin_ts.text = "iso" THEN TextInstant(args.begin_ts) ELSE S0

AskedEnd ==
    IF ModeB THEN S1
    ELSE IF args.end_ts.text = "iso" THEN TextInstant(args.end_ts) ELSE S1

-----------------------------------------------------------------------------
(* C1 *)

\* C1 as stated: in mode B, for either value of time_check and whatever
\* explicit bounds are supplied, every url of the result ends at the
\* stream's endTime and starts at that end minus the delta.
C1_AsStated ==
    (Returned /\ ModeB) =>
        \A i \in DOMAIN urls :
            /\ UrlEnd(urls[i]) = S1
            /\ UrlStart(urls[i]) = S1 - DeltaLength

\* C1 amended: in mode B every url of the result ends at the stream's
\* endTime; it starts at that end minus the delta, except that with
\* time_check it starts at the stream's beginTime when the end minus the
\* delta is earlier than the beginTime.
C1_RelativeWindow ==
    (Returned /\ ModeB) =>
        \A i \in DOMAIN urls :
            /\ UrlEnd(urls[i]) = S1
            /\ UrlStart(urls[i]) =
                  IF args.time_check /\ S1 - DeltaLength < S0
                  THEN S0 ELSE S1 - DeltaLength

C1_Witness ==
    /\ Returned /\ ModeB /\ Len(urls) = 1
    /\ args.begin_ts.text = "iso" /\ args.end_ts.text = "iso"
    /\ args.time_check /\ S1 - DeltaLength < S0

-----------------------------------------------------------------------------
(* C2 *)

\* C2: no url of the result has a window whose start is not strictly
\* before its end, for every request intent and either value of
\* time_check.
C2_NoInvalidWindow ==
    Returned => \A i \in DOMAIN urls : UrlStart(urls[i]) < UrlEnd(urls[i])

-----------------------------------------------------------------------------
(* C3 *)

\* C3: with explicit begin < end, no relative delta and time_check false,
\* every url of the result carries exactly the window (begin, end).
C3_ExplicitWindow ==
    (/\ Returned /\ ModeA /\ ~args.time_check
     /\ args.begin_ts.text = "iso" /\ args.end_ts.text = "iso"
     /\ TextInstant(args.begin_ts) < TextInstant(args.end_ts)) =>
        \A i \in DOMAIN urls :
            /\ UrlStart(urls[i]) = TextInstant(args.begin_ts)
            /\ UrlEnd(urls[i]) = TextInstant(args.end_ts)

-----------------------------------------------------------------------------
(* C4 *)

\* C4: with time_check, whenever the asked window and the stream overlap
\* (max(start, s0) < min(end, s1)) the call returns exactly one url for
\* the stream and its window is (max(start, s0), min(end, s1)).
C4_Clamped ==
    (/\ Ended /\ args.time_check /\ (ModeA \/ ModeB) /\ ExplicitOk
     /\ Max2(AskedStart, S0) < Min2(AskedEnd, S1)) =>
        /\ Returned
        /\ Len(urls) = 1
        /\ UrlStart(urls[1]) = Max2(AskedStart, S0)
        /\ UrlEnd(urls[1]) = Min2(AskedEnd, S1)

-----------------------------------------------------------------------------
(* C5 *)

\* C5: with time_check, an asked window that lies entirely before or
\* entirely after the stream's window (touching included) yields no url.
C5_Disjoint ==
    (/\ Ended /\ args.time_check /\ (ModeA \/ ModeB) /\ ExplicitOk
     /\ (AskedEnd <= S0 \/ AskedStart >= S1)) =>
        Len(urls) = 0

-----------------------------------------------------------------------------
(* C6 *)

\* C6: for an asked window within the stream's bounds the call with
\* time_check ends as the call without it does, with the same urls.
C6_Idempotent ==
    (/\ Ended /\ args.time_check /\ (ModeA \/ ModeB) /\ ExplicitOk
     /\ S0 <= AskedStart /\ AskedEnd <= S1) =>
        LET without == StreamOutcome([args EXCEPT !.time_check = FALSE], is_m2m,
                                     RefDes1, TheStream)
        IN  /\ Returned
            /\ without.kind # "raise"
            /\ urls = without.url

-----------------------------------------------------------------------------
(* C7 *)

\* C7: in mode A a missing begin is the stream's beginTime and a missing
\* end is the stream's endTime in every url of the result; with no
\* explicit dates, time_check and a stream with beginTime < endTime, the
\* call returns exactly one url, whose window is the stream's bounds.
C7_Defaults ==
    /\ (Returned /\ ModeA) =>
          \A i \in DOMAIN urls :
              /\ args.begin_ts.text = "none" => UrlStart(urls[i]) = S0
              /\ args.end_ts.text = "none" => UrlEnd(urls[i]) = S1
    /\ (/\ Ended /\ ModeA /\ args.time_check /\ S0 < S1
        /\ args.begin_ts.text = "none" /\ args.end_ts.text = "none") =>
          /\ Returned
          /\ Len(urls) = 1
          /\ UrlStart(urls[1]) = S0
          /\ UrlEnd(urls[1]) = S1

C7_Witness ==
    /\ Returned /\ ModeA /\ args.time_check /\ S0 < S1
    /\ args.begin_ts.text = "none" /\ args.end_ts.text = "none"
    /\ Len(urls) = 1

-----------------------------------------------------------------------------
(* C8, C9: the pairs of a result *)

\* p occurs in s
Contains(s, p) ==
    \E i \in 0..Len(s) :
        /\ i + Len(p) <= Len(s)
        /\ \A k \in 1..Len(p) : s[i + k] = p[k]

\* the instruments the call resolved
Resolved == {instruments[i] : i \in DOMAIN instruments}

\* the streams the gateway returns for an instrument; none when the lookup
\* fails
Retrieved(inst) ==
    IF gateway[inst].raises \/ gateway[inst].status_code # HTTP_STATUS_OK
    THEN <<>> ELSE gateway[inst].json

\* Under SpecFilter the request has no explicit bound and no delta: the
\* window of a stream is its own bounds, valid when both parse and
\* beginTime < endTime
WindowValid(st) ==
    /\ st.beginTime.text = "iso"
    /\ st.endTime.text = "iso"
    /\ TextInstant(st.beginTime) < TextInstant(st.endTime)

SamePair(st, other) == st.method = other.method /\ st.stream = other.stream

\* the urls of the result that name the pair (inst, st)
UrlsFor(inst, st) ==
    {i \in DOMAIN urls :
        /\ Join(<<urls[i].end_point.subsite, urls[i].end_point.node,
                  urls[i].end_point.sensor>>, "-") = inst
        /\ SamePair(urls[i].end_point, st)}

\* C8: with no stream or telemetry filter the result holds exactly one url
\* for each pair (resolved instrument, retrieved stream) whose bounds parse
\* and whose window is valid, and no url for any other pair.
C8_OneUrlPerValidPair ==
    (Returned /\ args.stream = "" /\ args.telemetry = <<>>) =>
        /\ \A inst \in Resolved : \A j \in DOMAIN Retrieved(inst) :
              LET st == Retrieved(inst)[j]
                  valid == {k \in DOMAIN Retrieved(inst) :
                               /\ SamePair(Retrieved(inst)[k], st)
                               /\ WindowValid(Retrieved(inst)[k])}
              IN  Cardinality(UrlsFor(inst, st)) = Cardinality(valid)
        /\ \A i \in DOMAIN urls :
              \E inst \in Resolved : \E j \in DOMAIN Retrieved(inst) :
                  i \in UrlsFor(inst, Retrieved(inst)[j])

\* the stream passes the filters of the call
PassesFilters(st) ==
    /\ args.stream # "" => st.stream = args.stream
    /\ args.telemetry # <<>> => Contains(st.method, args.telemetry)

\* C9: the result holds a url for every retrieved stream of a resolved
\* instrument whose name is the stream filter and whose method contains
\* the telemetry filter (when its window is valid), and no url for a
\* stream that does not pass the filters.
C9_Filters ==
    Returned =>
        \A inst \in Resolved : \A j \in DOMAIN Retrieved(inst) :
            LET st == Retrieved(inst)[j]
            IN  /\ (PassesFilters(st) /\ WindowValid(st)) => UrlsFor(inst, st) # {}
                /\ ~PassesFilters(st) => UrlsFor(inst, st) = {}

-----------------------------------------------------------------------------
(* C10 *)

\* a <= b, lexicographically by code point
LexLeq(a, b) ==
    \/ (Len(a) <= Len(b) /\ \A k \in 1..Len(a) : a[k] = b[k])
    \/ \E n \in 1..Min2(Len(a), Len(b)) :
          /\ \A k \in 1..(n - 1) : a[k] = b[k]
          /\ Ord(a[n]) < Ord(b[n])

\* the indices of the catalog entries in which p occurs
Matching(p) == {i \in DOMAIN self_instruments : Contains(self_instruments[i], p)}

\* the k-th smallest element of a set of indices
Nth(I, k) == CHOOSE i \in I : Cardinality({j \in I : j < i}) = k - 1

\* C10: search_instruments returns exactly the catalog entries containing
\* the pattern (case-sensitively), in catalog order, which is
\* lexicographic; the empty list when none does; it sends no request; a
\* repeated call returns the same list.
C10_SearchResult ==
    \A s \in searched :
        /\ Len(s.result) = Cardinality(Matching(s.ref_des))
        /\ \A k \in DOMAIN s.result :
              s.result[k] = self_instruments[Nth(Matching(s.ref_des), k)]
        /\ \A k \in DOMAIN s.result : \A l \in DOMAIN s.result :
              k <= l => LexLeq(s.result[k], s.result[l])

\* C10, the step: a search sends no request and repeats its result
C10_SearchStep ==
    searched' # searched =>
        /\ UNCHANGED <<request_url, response, status_code>>
        /\ \A s \in searched : \A t \in searched' :
              s.ref_des = t.ref_des => s.result = t.result

\* C10, whole: the result of every search is as C10_SearchResult says and
\* every search step is as C10_SearchStep says
C10_Search == []C10_SearchResult /\ [][C10_SearchStep]_vars

C10_Witness ==
    \E s \in searched :
        /\ Len(s.result) = 1
        /\ Len(self_instruments) = 2
        /\ Len(s.ref_des) > 0
        /\ Find(s.result[1], s.ref_des) > 0

-----------------------------------------------------------------------------
(* C11 *)

\* C11: the catalog built at construction is sorted lexicographically and
\* holds each reference designator at most once, whatever the bulk listing
\* names.
C11_OrderedSet ==
    /\ \A k \in DOMAIN self_instruments : \A l \in DOMAIN self_instruments :
          k < l => LexLeq(self_instruments[k], self_instruments[l])
    /\ \A k \in DOMAIN self_instruments : \A l \in DOMAIN self_instruments :
          k # l => self_instruments[k] # self_instruments[l]

-----------------------------------------------------------------------------
(* C12 *)

\* C12: once the client is constructed no operation on it changes the
\* instrument list.
C12_CatalogFrozen == [][Built => self_instruments' = self_instruments]_vars

-----------------------------------------------------------------------------
(* C15 *)

\* C15: whatever the gateway answers, construction completes and
\* instrument_to_query returns a list: no call is left by an uncaught
\* exception.
C15_NoCrash ==
    /\ Built => ~(last_call.op = "base_url" /\ last_call.raised)
    /\ pc # "raised"

-----------------------------------------------------------------------------
(* C16 *)

\* the remote end failed: no connection, no answer in time, or a status
\* other than 200
Failed(c) ==
    c.sent /\ (c.answer.raises \/ c.answer.timeout \/ c.answer.status_code # HTTP_STATUS_OK)

\* the last call has just returned: nothing has sent a request since
JustCalled == Built /\ pc = "idle"

\* C16: after a fetch of the instrument list (construction), of streams or
\* of deployments that the remote end failed, the caller either gets an
\* exception or gets a value that is not the empty result and reads a
\* last_status_code that is not 200.
C16_Distinguishable ==
    (JustCalled /\ last_call.op \in FetchOps \cup {"base_url"} /\ Failed(last_call)) =>
        \/ last_call.raised
        \/ (last_call.returned # {<<>>} /\ status_code # {HTTP_STATUS_OK})

-----------------------------------------------------------------------------
(* C13 *)

\* C13: under every interleaving of the lookups of different instruments
\* on one client, each call returns the response of its own request (None
\* when its own request failed).
C13_OwnResponse ==
    \A t \in DOMAIN thr :
        thr[t].pc = "done" =>
            thr[t].returned =
                SentResponse(is_m2m, thr[t].url, GatewayGet(gateway, thr[t].url))

-----------------------------------------------------------------------------
(* C14 *)

\* a delta type is supplied and is none of the seven units
UnknownDeltaType ==
    args.time_delta_type # "" /\ args.time_delta_type \notin _valid_relativedeltatypes

\* C14 as stated: with a delta type that is none of the seven units the
\* call produces no url, whatever delta value and explicit begin and end
\* come with it.
C14_AsStated == (Ended /\ UnknownDeltaType) => (Returned /\ Len(urls) = 0)

\* C14 amended: with a delta type that is none of the seven units and a
\* delta value other than 0 the call returns no url, whatever explicit
\* begin and end come with it; with no delta value (or 0) the type is not
\* examined and the request is an explicit window: with no explicit dates,
\* time_check and a stream with beginTime < endTime the call returns one
\* url, whose window is the stream's bounds.
C14_InvalidDeltaType ==
    /\ (Ended /\ UnknownDeltaType /\ args.time_delta_value # 0) =>
          (Returned /\ Len(urls) = 0)
    /\ (/\ Ended /\ UnknownDeltaType /\ args.time_delta_value = 0
        /\ args.begin_ts.text = "none" /\ args.end_ts.text = "none"
        /\ args.time_check /\ S0 < S1) =>
          /\ Returned
          /\ Len(urls) = 1
          /\ UrlStart(urls[1]) = S0
          /\ UrlEnd(urls[1]) = S1

C14_Witness ==
    /\ Returned /\ UnknownDeltaType /\ args.time_delta_value # 0
    /\ args.begin_ts.text = "iso" /\ args.end_ts.text = "iso"
    /\ TextInstant(args.begin_ts) < TextInstant(args.end_ts)
    /\ S0 < S1
    /\ Len(urls) = 0

-----------------------------------------------------------------------------
(* Deployment events: classification, filter, bad instants, overlap *)

\* an event is active at an instant iff it has no eventStopTime or its
\* eventStopTime is at or after the instant
ActiveAt(d, at) == d.eventStopTime = {} \/ \E ms \in d.eventStopTime : ms >= at

\* the event a row of the report was made for
EventOf(row) ==
    CHOOSE d \in {all_deployments[i] : i \in 1..Len(all_deployments)} :
        d.deploymentNumber = row.deployment_number

Rows == {deployment_status[i] : i \in 1..Len(deployment_status)}

Events == {all_deployments[i] : i \in 1..Len(all_deployments)}

\* C17: whatever the fetch script writes into d['active'] and the show script
\* into status['active'] is the classification at now: active without an
\* eventStopTime, inactive with one before now, active with one at or after
\* now.
C17_ActiveClassification ==
    /\ script = "fetch" =>
           \A d \in Events : d.active # {} => d.active = {ActiveAt(d, now)}
    /\ script = "show" =>
           \A row \in Rows : row.active = ActiveAt(EventOf(row), now)

\* C18: the status filter written in line keeps, for 'active', exactly the
\* events that are active at now, for 'inactive' exactly the others and for
\* 'all' every event, in the order of the input and unmodified.
C18_FilterAgrees ==
    (script = "build" /\ script_pc \in {"filtered", "done"}) =>
        all_deployments =
            CASE status_arg = "active" ->
                     SelectSeq(fetched, LAMBDA d : ActiveAt(d, now))
              [] status_arg = "inactive" ->
                     SelectSeq(fetched, LAMBDA d : ~ActiveAt(d, now))
              [] OTHER -> fetched

\* an instant field that is missing where it is required or fails to parse
BadInstant(d) ==
    \/ d.eventStartTime = {}
    \/ \E ms \in d.eventStartTime : OutOfRange(ms)
    \/ \E ms \in d.eventStopTime : OutOfRange(ms)

\* the streams of the show script that make a row
RowStreams ==
    SelectSeq(dep_streams,
              LAMBDA s : ~TelemetrySkips(args, s) /\ Parses(s.beginTime)
                         /\ Parses(s.endTime))

\* C19: no event makes a script raise; an event with a missing or
\* unparseable instant is not in what the script returns, and every other
\* event is.
C19_BadEventsDropped ==
    /\ script_pc # "raised"
    /\ (script = "fetch" /\ script_pc = "done") =>
           \A d \in Events : ~BadInstant(d)
    /\ (script = "show" /\ script_pc = "done" /\ d_i > 1) =>
           /\ \A row \in Rows : ~BadInstant(EventOf(row))
           /\ \A d \in Events :
                  (~BadInstant(d) /\ Len(RowStreams) > 0) =>
                      \E row \in Rows : row.deployment_number = d.deploymentNumber

\* the windows a row of the report shows, in seconds; an end of None is open
RowD0(row) == TextInstant(row.deployment_start_time)

RowOpen(row) == row.deployment_end_time = NoTs

RowD1(row) == TextInstant(row.deployment_end_time)

RowS0(row) == TextInstant(row.stream_start_time)

RowS1(row) == TextInstant(row.stream_end_time)

-----------------------------------------------------------------------------
(* The request urls: rendering, fields, options *)

\* C21: in every url instrument_to_query returns, beginDT and endDT are what
\* the formatter of the requested window writes (six fractional digits and a
\* Z), also when time_check replaced a bound by the stream's bound.
C21_SameFormatter ==
    Returned =>
        \A i \in DOMAIN urls :
            /\ urls[i].end_point.beginDT = Strftime(Parse(urls[i].end_point.beginDT))
            /\ urls[i].end_point.endDT = Strftime(Parse(urls[i].end_point.endDT))


\* C22: every url holds, in this order, the components of the reference
\* designator, the stream's method and name, beginDT, endDT, format, limit,
\* execDPA, include_provenance and user, then email iff an email was given;
\* execDPA and include_provenance are 'true' or 'false' as exec_dpa and
\* provenance are.
C22_UrlFields ==
    Returned =>
        \A i \in DOMAIN urls :
            LET e == urls[i].end_point
            IN  /\ e.written = IF args.email # "" THEN EndPointFields \o <<"email">>
                               ELSE EndPointFields
                /\ Join(<<e.subsite, e.node, e.sensor>>, "-") = instruments[1]
                /\ e.method = TheStream.method
                /\ e.stream = TheStream.stream
                /\ e.execDPA = (IF args.exec_dpa THEN "true" ELSE "false")
                /\ e.include_provenance = (IF args.provenance THEN "true" ELSE "false")
                /\ e.format = args.application_type
                /\ e.limit = args.limit
                /\ e.user = args.user
                /\ e.email = args.email

\* a url made without an email, with both flags off
C22_Witness ==
    /\ Returned
    /\ Len(urls) = 1
    /\ args.email = ""
    /\ ~args.exec_dpa
    /\ ~args.provenance
    /\ urls[1].end_point.execDPA = "false"

\* C23: the limit of every url is an integer from -1 to 10000.
C23_LimitInRange ==
    Returned => \A i \in DOMAIN urls : urls[i].end_point.limit \in -1..LIMIT_MAX


-----------------------------------------------------------------------------
(* Unparseable explicit bounds *)

\* begin_ts or end_ts is given and parser.parse raises ValueError on it
BadExplicit == args.begin_ts.text = "junk" \/ args.end_ts.text = "junk"

\* some request asked the gateway for the streams of an instrument
LookedUp == \E u \in request_url : u.end_point.path = "metadata/times"

\* C28: with a begin_ts or end_ts that does not parse, instrument_to_query
\* returns the empty list and looks up the streams of no instrument, also
\* when a valid relative delta comes with it.
C28_UnparseableBound ==
    BadExplicit =>
        /\ pc \in {"idle", "done"}
        /\ urls = <<>>
        /\ ~LookedUp

\* the call returned for an unparseable begin_ts beside a valid delta, with
\* an instrument resolved
C28_Witness ==
    /\ Returned
    /\ args.begin_ts = JunkTs
    /\ DeltaActive(args)
    /\ args.time_delta_type \in _valid_relativedeltatypes
    /\ Len(instruments) > 0
    /\ urls = <<>>


-----------------------------------------------------------------------------
(* Failure isolation *)

\* C25: instrument_to_query ends by returning; an instrument whose lookup
\* fails or returns nothing, an instrument without the requested stream and
\* a stream whose bounds do not parse are skipped one by one, and every
\* other stream of every other resolved instrument has its url in the result
\* (stated for a call without stream filter, where no stream is unwanted).
C25_Isolation ==
    Ended =>
        /\ Returned
        /\ args.stream = "" =>
               \A inst \in Resolved : \A j \in DOMAIN Retrieved(inst) :
                   LET st == Retrieved(inst)[j]
                   IN  (PassesFilters(st) /\ WindowValid(st)) => UrlsFor(inst, st) # {}


-----------------------------------------------------------------------------
(* The last-request fields *)

\* the last call was send_request, by itself or from a fetch method
SentLast == JustCalled /\ last_call.op \in FetchOps \cup {"send_request"}

\* the request went out and an answer came back
Answered(c) == c.sent /\ ~c.answer.raises /\ ~c.answer.timeout

\* C27: after send_request the last-request fields tell of that call only:
\* the url is the one passed; a refused url or a failed connection leaves
\* response and status None; a status other than 200 is kept with a response
\* of None; a 200 is kept with the body.
C27_LastRequest ==
    SentLast =>
        /\ request_url = {last_call.url}
        /\ ~Answered(last_call) => (response = {} /\ status_code = {})
        /\ (Answered(last_call) /\ last_call.answer.status_code # HTTP_STATUS_OK) =>
               (response = {} /\ status_code = {last_call.answer.status_code})
        /\ (Answered(last_call) /\ last_call.answer.status_code = HTTP_STATUS_OK) =>
               (response = {last_call.answer.json} /\ status_code = {HTTP_STATUS_OK})

\* a fetch whose connection failed, on a client whose construction had left
\* a 200 and a body in the fields
C27_Witness ==
    /\ SentLast
    /\ self_instruments # <<>>
    /\ last_call.op = "fetch_instrument_deployments"
    /\ last_call.answer = ConnectionError
    /\ response = {}
    /\ status_code = {}


-----------------------------------------------------------------------------
(* Calls again and again *)

\* the calls that returned, the one that has just returned included
Calls == history \cup (IF pc = "done" THEN {[args |-> args, urls |-> urls]} ELSE {})

\* C24: two calls of instrument_to_query with the same arguments return the
\* same list of urls, whatever lookups, failed requests and other calls the
\* client served before and between them.
C24_NoCrossCallState ==
    \A c1 \in Calls, c2 \in Calls : c1.args = c2.args => c1.urls = c2.urls

\* a call has returned urls a second time, after a call with other arguments
\* and a lookup that failed
C24_Witness ==
    /\ pc = "done"
    /\ Len(urls) > 0
    /\ [args |-> args, urls |-> urls] \in history
    /\ Cardinality(history) >= 2
    /\ last_call.op \in FetchOps
    /\ last_call.answer = ConnectionError

-----------------------------------------------------------------------------
(* The dates of request_instrument_stream_nc *)

\* the command line gives both dates, inside the stream's bounds, and none of
\* the delta options
DatesOnly ==
    /\ cli.time_delta_type = ""
    /\ cli.time_delta_value = {}
    /\ Parses(cli.start_date)
    /\ Parses(cli.end_date)
    /\ TextInstant(RequestStream.beginTime) <= TextInstant(cli.start_date)
    /\ TextInstant(cli.start_date) < TextInstant(cli.end_date)
    /\ TextInstant(cli.end_date) <= TextInstant(RequestStream.endTime)

\* C26: a start_date and an end_date given without time_delta options are
\* the start and the end of the window of the request url.
C26_DatesDecide ==
    (script = "request" /\ script_pc \in {"printed", "sent"} /\ DatesOnly) =>
        /\ Len(request_urls) = 1
        /\ UrlStart(request_urls[1]) = TextInstant(cli.start_date)
        /\ UrlEnd(request_urls[1]) = TextInstant(cli.end_date)


-----------------------------------------------------------------------------
(* The requests of build_instrument_deployment_requests *)

\* the streams the gateway holds for the deployed instrument
BuildStreams ==
    LET r == gateway[RefDes1]
    IN  IF r.status_code = HTTP_STATUS_OK /\ ~r.timeout /\ ~r.raises
        THEN {r.json[i] : i \in DOMAIN r.json} ELSE {}

\* the window of the deployment, as main takes it, and the window of the
\* stream have an instant in common
Overlaps(d, st) ==
    /\ Parses(st.beginTime)
    /\ Parses(st.endTime)
    /\ ~BuildSkipsEvent(d)
    /\ ~DtLess(Parse(st.endTime), BuildDt0(d))
    /\ ~DtLess(BuildDt1(d, now), Parse(st.beginTime))

\* C30: every url of request_urls is for a deployment and a stream whose
\* windows overlap, with and without time_check.
C30_OnlyOverlapping ==
    script = "build" =>
        \A i \in DOMAIN request_urls :
            \E d \in Events, st \in BuildStreams :
                /\ SamePair(request_urls[i].end_point, st)
                /\ Overlaps(d, st)

====
